---- MODULE Spec2Model ----
(***************************************************************************)
(* Model of the Mafia game engine (src/engine): the domain rules of        *)
(* internal/domain, the commands of internal/engine/commands.go, the       *)
(* engine loop of loop.go, the timer manager of timers.go and the inbound  *)
(* handler of handlers.go.                                                 *)
(*                                                                         *)
(* Player identifiers are the sequential ids "player-1", "player-2", ...   *)
(* of CreatePlayerID, written 1, 2, ...; 0 is the empty string "", which   *)
(* is also the value of an unset target slot and never a player.           *)
(***************************************************************************)
EXTENDS Integers, Sequences, FiniteSets, TLC

\* ------------------------------------------------------------------ bounds

\* GameMaxPlayers of the configuration under which the model runs.
MaxPlayers == 6

\* Rounds after which the phase timer is no longer let fire into a new Night.
MaxRound == 2

\* Number of outcomes of the role shuffle that are explored.
ShuffleChoices == 2

\* Senders of inbound intents (voters, night actors, chat senders): 0..MaxActor.
MaxActor == 3

\* Targets of votes, night actions and eliminations: 0..MaxTarget.
MaxTarget == 3

\* Senders of chat messages: 0..MaxChat.
MaxChat == 2

\* Capacity of the command channel in the model (64 in NewEngine).
QueueCap == 2

\* Largest GameMinPlayers of the configurations drawn for the configured runs.
ConfigMinBound == 2

\* Largest GameMaxPlayers of the configurations drawn for the configured runs
\* (one more than the names CreatePlayerName can hand out).
ConfigMaxBound == 13

\* Publish calls that fail within one loop iteration, at most.
MaxPublishErrors == 1

\* Goroutines that call Generator.Next concurrently.
MaxCallers == 3

\* Calls of Next each of them makes, at most.
MaxCalls == 2

\* ------------------------------------------------------------------ enums

\* GameMinPlayers (configuration default).
MinPlayers == 6

NoPlayer == 0

PhaseWaiting == "waiting"
PhaseNight == "night"
PhaseDay == "day"
PhaseVoting == "voting"
PhaseEnded == "ended"

WinnerNone == "none"
WinnerMafia == "mafia"
WinnerVillage == "village"

RoleUnknown == "unknown"
RoleVillager == "villager"
RoleMafia == "mafia"
RoleDoctor == "doctor"
RoleSheriff == "sheriff"

IsMafiaTeam(r) == r = RoleMafia

HasNightAction(r) == r = RoleMafia \/ r = RoleDoctor \/ r = RoleSheriff

\* ------------------------------------------------------------------ state

VARIABLES
    ng,         \* a name Generator and the goroutines that call its Next
    state,      \* e.state: the GameState
    out,        \* events the loop iteration that ran last handed to the producer, in order
    producer,   \* the producer: [faulty: its Publish can fail, failed: positions of out whose Publish failed]
    lastErr,    \* that iteration's Apply returned an error
    savedLastNight, \* history: <<DoctorTarget as the most recent finished Night left it>>, << >> when not kept
    tm,         \* the TimerManager: [phaseTimer, phaseTimerID]
    armed,      \* runtime timers that are scheduled and neither fired nor stopped
    cancelled,  \* history: the timers that were stopped while they were armed
    sending,    \* fired timer callbacks blocked in their select, oldest first
    cmdCh,      \* the command channel
    handler,    \* the inbound handler: the commands its select is sending (none or one)
    handled,    \* history: <<[ev, ret]>>, the last HandleEvent call's event and return value; << >> when not kept
    mainPc,     \* main's shutdown sequence: cancel(), then Engine.Stop step by step
    running     \* the loop goroutine has not returned

vars == <<ng, state, out, producer, handled, lastErr, savedLastNight, tm, armed, cancelled, sending, cmdCh, handler, mainPc, running>>

\* The consumer's context is cancelled (main's cancel()).
inCtxDone == mainPc # "run"

\* e.ctx is cancelled (e.cancel() in Engine.Stop).
ctxDone == mainPc \in {"stopping", "stopped"}

\* ------------------------------------------------------------------ domain

NewGameState ==
    [ Round |-> 1, Phase |-> PhaseWaiting, Winner |-> WinnerNone,
      Players |-> << >>, Votes |-> << >>,
      MafiaTarget |-> NoPlayer, DoctorTarget |-> NoPlayer, SheriffTarget |-> NoPlayer,
      PreviousDoctorTarget |-> NoPlayer, SheriffUsedBullet |-> FALSE ]

\* The state main builds and hands to NewEngine: as NewGameState, with Round 0.
gameState == [NewGameState EXCEPT !.Round = 0]

GetPlayerCount(g) == Cardinality(DOMAIN g.Players)

\* g.Players[id] is a live player (the "player != nil && player.Alive" tests).
IsAlive(g, id) == id \in DOMAIN g.Players /\ g.Players[id].Alive

CountAlive(g, team) ==
    Cardinality({p \in DOMAIN g.Players :
                    g.Players[p].Alive /\ (IsMafiaTeam(g.Players[p].Role) <=> team = "mafia")})

\* IsGameOver with ">" in place of ">=": mafia needs a strict majority.
IsGameOverStrict(g) ==
    LET mafiaAlive == CountAlive(g, "mafia")
        villageAlive == CountAlive(g, "village")
    IN  IF mafiaAlive = 0
        THEN [over |-> TRUE, g |-> [g EXCEPT !.Winner = WinnerVillage, !.Phase = PhaseEnded]]
        ELSE IF mafiaAlive > villageAlive
        THEN [over |-> TRUE, g |-> [g EXCEPT !.Winner = WinnerMafia, !.Phase = PhaseEnded]]
        ELSE [over |-> FALSE, g |-> g]

IsGameOver(g) ==
    LET mafiaAlive == CountAlive(g, "mafia")
        villageAlive == CountAlive(g, "village")
    IN  IF mafiaAlive = 0
        THEN [over |-> TRUE, g |-> [g EXCEPT !.Winner = WinnerVillage, !.Phase = PhaseEnded]]
        ELSE IF mafiaAlive >= villageAlive
        THEN [over |-> TRUE, g |-> [g EXCEPT !.Winner = WinnerMafia, !.Phase = PhaseEnded]]
        ELSE [over |-> FALSE, g |-> g]

\* CanAddPlayer that still admits a player when the game is full.
CanAddPlayerInclusive(currentPlayerCount, maxPlayers) == currentPlayerCount <= maxPlayers

\* CanStartGame that refuses a full game.
CanStartGameStrict(currentPlayerCount, minPlayers, maxPlayers) ==
    currentPlayerCount < maxPlayers /\ currentPlayerCount >= minPlayers

CanAddPlayer(currentPlayerCount, maxPlayers) == currentPlayerCount < maxPlayers

CanStartGame(currentPlayerCount, minPlayers, maxPlayers) ==
    currentPlayerCount <= maxPlayers /\ currentPlayerCount >= minPlayers

GetRoleDistribution(currentPlayerCount) ==
    LET mafiaCount == currentPlayerCount \div 3
    IN  [ villager |-> currentPlayerCount - mafiaCount - 1 - 1,
          mafia |-> mafiaCount, doctor |-> 1, sheriff |-> 1 ]

\* The roles in the order of one iteration over the distribution map, each
\* repeated count times ("for range count" runs zero times on count <= 0).
RoleSlots(dist) ==
    LET rep(r, c) == [i \in 1..(IF c > 0 THEN c ELSE 0) |-> r]
    IN  rep(RoleDoctor, dist.doctor) \o rep(RoleSheriff, dist.sheriff)
            \o rep(RoleMafia, dist.mafia) \o rep(RoleVillager, dist.villager)

\* AssignRolesToPlayers: the k-th explored outcome of the shuffle gives slot i
\* to the player k places further round the table.  Only called when every
\* player has a slot or more (otherwise the Go code indexes out of range).
AssignRolesToPlayers(g, roleDistribution, k) ==
    LET n == GetPlayerCount(g)
        slots == RoleSlots(roleDistribution)
        slotOf(p) == ((p - 1 + k) % n) + 1
    IN  [g EXCEPT !.Players =
            [p \in DOMAIN g.Players |->
                IF slotOf(p) <= Len(slots)
                THEN [g.Players[p] EXCEPT !.Role = slots[slotOf(p)]]
                ELSE g.Players[p]]]

\* AddPlayer with the id CreatePlayerID hands out next.
AddPlayer(g, id) ==
    IF id \in DOMAIN g.Players
    THEN [ok |-> FALSE, g |-> g]
    ELSE [ok |-> TRUE,
          g |-> [g EXCEPT !.Players =
                    [p \in DOMAIN g.Players \cup {id} |->
                        IF p = id THEN [Role |-> RoleUnknown, Alive |-> TRUE]
                        ELSE g.Players[p]]]]

\* EliminatePlayer that brings a dead player back.
EliminatePlayerRevive(g, id) ==
    IF id \notin DOMAIN g.Players THEN [player |-> NoPlayer, g |-> g]
    ELSE IF ~g.Players[id].Alive
         THEN [player |-> NoPlayer, g |-> [g EXCEPT !.Players[id].Alive = TRUE]]
    ELSE [player |-> id, g |-> [g EXCEPT !.Players[id].Alive = FALSE]]

\* EliminatePlayer: player is the eliminated id, NoPlayer for the nil result.
EliminatePlayer(g, id) ==
    IF id \notin DOMAIN g.Players THEN [player |-> NoPlayer, g |-> g]
    ELSE IF ~g.Players[id].Alive THEN [player |-> NoPlayer, g |-> g]
    ELSE [player |-> id, g |-> [g EXCEPT !.Players[id].Alive = FALSE]]

\* ResetPhaseData that also hands the sheriff a new bullet.
ResetPhaseDataBullet(g) ==
    [g EXCEPT !.Votes = << >>,
              !.PreviousDoctorTarget = g.DoctorTarget,
              !.MafiaTarget = NoPlayer, !.DoctorTarget = NoPlayer,
              !.SheriffTarget = NoPlayer, !.SheriffUsedBullet = FALSE]

\* ResetPhaseData that clears the night targets and keeps the votes.
ResetPhaseDataKeepVotes(g) ==
    [g EXCEPT !.PreviousDoctorTarget = g.DoctorTarget,
              !.MafiaTarget = NoPlayer, !.DoctorTarget = NoPlayer,
              !.SheriffTarget = NoPlayer]

ResetPhaseData(g) ==
    [g EXCEPT !.Votes = << >>,
              !.PreviousDoctorTarget = g.DoctorTarget,
              !.MafiaTarget = NoPlayer, !.DoctorTarget = NoPlayer,
              !.SheriffTarget = NoPlayer]

\* RegisterVote without the duplicate-vote test: a later vote overwrites.
RegisterVoteOverwrite(g, voterID, targetID) ==
    IF ~IsAlive(g, voterID) THEN [ok |-> FALSE, g |-> g]
    ELSE IF ~IsAlive(g, targetID) THEN [ok |-> FALSE, g |-> g]
    ELSE [ok |-> TRUE,
          g |-> [g EXCEPT !.Votes =
                    [v \in DOMAIN g.Votes \cup {voterID} |->
                        IF v = voterID THEN targetID ELSE g.Votes[v]]]]

\* RegisterVote without the test that the target is alive.
RegisterVoteAnyTarget(g, voterID, targetID) ==
    IF ~IsAlive(g, voterID) THEN [ok |-> FALSE, g |-> g]
    ELSE IF targetID \notin DOMAIN g.Players THEN [ok |-> FALSE, g |-> g]
    ELSE IF voterID \in DOMAIN g.Votes THEN [ok |-> FALSE, g |-> g]
    ELSE [ok |-> TRUE,
          g |-> [g EXCEPT !.Votes =
                    [v \in DOMAIN g.Votes \cup {voterID} |->
                        IF v = voterID THEN targetID ELSE g.Votes[v]]]]

RegisterVote(g, voterID, targetID) ==
    IF ~IsAlive(g, voterID) THEN [ok |-> FALSE, g |-> g]
    ELSE IF ~IsAlive(g, targetID) THEN [ok |-> FALSE, g |-> g]
    ELSE IF voterID \in DOMAIN g.Votes THEN [ok |-> FALSE, g |-> g]
    ELSE [ok |-> TRUE,
          g |-> [g EXCEPT !.Votes =
                    [v \in DOMAIN g.Votes \cup {voterID} |->
                        IF v = voterID THEN targetID ELSE g.Votes[v]]]]

\* SetNightAction without the "already set" tests: a later action overwrites the slot.
SetNightActionOverwrite(g, role, actorID, targetID) ==
    IF ~HasNightAction(role) THEN [ok |-> FALSE, g |-> g]
    ELSE IF ~IsAlive(g, targetID) THEN [ok |-> FALSE, g |-> g]
    ELSE CASE role = RoleMafia ->
                IF actorID = targetID THEN [ok |-> FALSE, g |-> g]
                ELSE [ok |-> TRUE, g |-> [g EXCEPT !.MafiaTarget = targetID]]
           [] role = RoleDoctor ->
                IF g.PreviousDoctorTarget = targetID THEN [ok |-> FALSE, g |-> g]
                ELSE [ok |-> TRUE, g |-> [g EXCEPT !.DoctorTarget = targetID]]
           [] role = RoleSheriff ->
                IF g.SheriffUsedBullet THEN [ok |-> FALSE, g |-> g]
                ELSE IF actorID = targetID THEN [ok |-> FALSE, g |-> g]
                ELSE [ok |-> TRUE,
                      g |-> [g EXCEPT !.SheriffTarget = targetID,
                                      !.SheriffUsedBullet = TRUE]]
           [] OTHER -> [ok |-> FALSE, g |-> g]

\* SetNightAction that lets the mafia target themselves.
SetNightActionSelfTarget(g, role, actorID, targetID) ==
    IF ~HasNightAction(role) THEN [ok |-> FALSE, g |-> g]
    ELSE IF ~IsAlive(g, targetID) THEN [ok |-> FALSE, g |-> g]
    ELSE CASE role = RoleMafia ->
                IF g.MafiaTarget # NoPlayer THEN [ok |-> FALSE, g |-> g]
                ELSE [ok |-> TRUE, g |-> [g EXCEPT !.MafiaTarget = targetID]]
           [] role = RoleDoctor ->
                IF g.DoctorTarget # NoPlayer THEN [ok |-> FALSE, g |-> g]
                ELSE IF g.PreviousDoctorTarget = targetID THEN [ok |-> FALSE, g |-> g]
                ELSE [ok |-> TRUE, g |-> [g EXCEPT !.DoctorTarget = targetID]]
           [] role = RoleSheriff ->
                IF g.SheriffTarget # NoPlayer THEN [ok |-> FALSE, g |-> g]
                ELSE IF g.SheriffUsedBullet THEN [ok |-> FALSE, g |-> g]
                ELSE IF actorID = targetID THEN [ok |-> FALSE, g |-> g]
                ELSE [ok |-> TRUE,
                      g |-> [g EXCEPT !.SheriffTarget = targetID,
                                      !.SheriffUsedBullet = TRUE]]
           [] OTHER -> [ok |-> FALSE, g |-> g]

SetNightAction(g, role, actorID, targetID) ==
    IF ~HasNightAction(role) THEN [ok |-> FALSE, g |-> g]
    ELSE IF ~IsAlive(g, targetID) THEN [ok |-> FALSE, g |-> g]
    ELSE CASE role = RoleMafia ->
                IF g.MafiaTarget # NoPlayer THEN [ok |-> FALSE, g |-> g]
                ELSE IF actorID = targetID THEN [ok |-> FALSE, g |-> g]
                ELSE [ok |-> TRUE, g |-> [g EXCEPT !.MafiaTarget = targetID]]
           [] role = RoleDoctor ->
                IF g.DoctorTarget # NoPlayer THEN [ok |-> FALSE, g |-> g]
                ELSE IF g.PreviousDoctorTarget = targetID THEN [ok |-> FALSE, g |-> g]
                ELSE [ok |-> TRUE, g |-> [g EXCEPT !.DoctorTarget = targetID]]
           [] role = RoleSheriff ->
                IF g.SheriffTarget # NoPlayer THEN [ok |-> FALSE, g |-> g]
                ELSE IF g.SheriffUsedBullet THEN [ok |-> FALSE, g |-> g]
                ELSE IF actorID = targetID THEN [ok |-> FALSE, g |-> g]
                ELSE [ok |-> TRUE,
                      g |-> [g EXCEPT !.SheriffTarget = targetID,
                                      !.SheriffUsedBullet = TRUE]]
           [] OTHER -> [ok |-> FALSE, g |-> g]

\* ResolveNightActions that ignores the doctor's save.
ResolveNightActionsNoSave(g) == g.MafiaTarget

ResolveNightActions(g) ==
    IF g.MafiaTarget = NoPlayer THEN NoPlayer
    ELSE IF g.DoctorTarget = g.MafiaTarget THEN NoPlayer
    ELSE g.MafiaTarget

TallyVotes(votes) ==
    [t \in {votes[v] : v \in DOMAIN votes} |->
        Cardinality({v \in DOMAIN votes : votes[v] = t})]

\* getTopVoted: the set of the targets with the highest count.
getTopVoted(votes) ==
    IF DOMAIN votes = {} THEN {}
    ELSE LET tally == TallyVotes(votes)
         IN  {t \in DOMAIN tally : \A u \in DOMAIN tally : tally[u] <= tally[t]}

\* GetVoteWinner that breaks a tie in favour of the lowest id.
GetVoteWinnerFirst(votes) ==
    LET highestVotedPlayer == getTopVoted(votes)
    IN  IF highestVotedPlayer = {} THEN [winner |-> NoPlayer, ok |-> FALSE]
        ELSE [winner |-> CHOOSE t \in highestVotedPlayer :
                            \A u \in highestVotedPlayer : t <= u,
              ok |-> TRUE]

GetVoteWinner(votes) ==
    LET highestVotedPlayer == getTopVoted(votes)
    IN  IF Cardinality(highestVotedPlayer) # 1 THEN [winner |-> NoPlayer, ok |-> FALSE]
        ELSE [winner |-> CHOOSE t \in highestVotedPlayer : TRUE, ok |-> TRUE]

ResolveVotingPhase(g) ==
    IF DOMAIN g.Votes = {} THEN NoPlayer
    ELSE LET r == GetVoteWinner(g.Votes)
         IN  IF ~r.ok THEN NoPlayer ELSE r.winner

\* ------------------------------------------------------------------ events

\* The two explored orders of a Go map iteration over the keys S.
RECURSIVE Ascending(_)
Ascending(S) ==
    IF S = {} THEN << >>
    ELSE LET m == CHOOSE x \in S : \A y \in S : x <= y
         IN  <<m>> \o Ascending(S \ {m})

Reverse(s) == [i \in 1..Len(s) |-> s[Len(s) + 1 - i]]

MapOrders(S) == {Ascending(S), Reverse(Ascending(S))}

GameStarted(players) == [Type |-> "game_started", Players |-> players]

RoleAssigned(playerID, role) ==
    [Type |-> "role_assigned", PlayerID |-> playerID, Role |-> role]

PhaseChanged(round, oldPhase, newPhase) ==
    [Type |-> "phase_changed", Round |-> round, OldPhase |-> oldPhase, NewPhase |-> newPhase]

PlayerEliminated(playerID, reason) ==
    [Type |-> "player_eliminated", PlayerID |-> playerID, Reason |-> reason]

GameEnded(winner) == [Type |-> "game_ended", Winner |-> winner]

AllChatMessage(senderID) == [Type |-> "all_chat", SenderID |-> senderID]

MafiaChatMessage(senderID) == [Type |-> "mafia_chat", SenderID |-> senderID]

VoteSubmitted(voterID, targetID) ==
    [Type |-> "vote_submitted", VoterID |-> voterID, TargetID |-> targetID]

NightAction(role, actorID, targetID) ==
    [Type |-> "night_action", Role |-> role, ActorID |-> actorID, TargetID |-> targetID]

PlayerThoughts(playerID) == [Type |-> "player_thoughts", PlayerID |-> playerID]

\* ------------------------------------------------------------------ commands

\* A command's Apply gives [err, g, effects]: err is "Apply returned an error",
\* g the game state afterwards, effects the events of its PublishEffects.
Rejected(g) == [err |-> TRUE, g |-> g, effects |-> << >>]

Accepted(g, effects) == [err |-> FALSE, g |-> g, effects |-> effects]

AddPlayerCommand == [Type |-> "AddPlayer", MaxPlayers |-> MaxPlayers]

StartGameCommand ==
    [Type |-> "StartGame", MinPlayers |-> MinPlayers, MaxPlayers |-> MaxPlayers]

VoteCommand(voterID, targetID) ==
    [Type |-> "Vote", VoterID |-> voterID, TargetID |-> targetID]

ChatCommand(senderID) == [Type |-> "Chat", SenderID |-> senderID]

MafiaChatCommand(senderID) == [Type |-> "MafiaChat", SenderID |-> senderID]

NightActionCommand(role, actorID, targetID) ==
    [Type |-> "NightAction", Role |-> role, ActorID |-> actorID, TargetID |-> targetID]

PhaseChangeCommand(newPhase) == [Type |-> "PhaseChange", NewPhase |-> newPhase]

EliminatePlayerCommand(playerID, reason) ==
    [Type |-> "EliminatePlayer", PlayerID |-> playerID, Reason |-> reason]

\* The names CreatePlayerName can hand out (availableNames).
NamePoolSize == 12

\* NewPlayer("", "", RoleUnknown) takes the next id and the next name; both
\* counters equal the number of players created so far.
AddPlayerApply(c, g) ==
    IF g.Phase # PhaseWaiting THEN Rejected(g)
    ELSE IF ~CanAddPlayer(GetPlayerCount(g), c.MaxPlayers) THEN Rejected(g)
    ELSE IF GetPlayerCount(g) >= NamePoolSize THEN Rejected(g)
    ELSE LET r == AddPlayer(g, GetPlayerCount(g) + 1)
         IN  IF ~r.ok THEN Rejected(g) ELSE Accepted(r.g, << >>)

\* StartGameCommand.Apply that leaves the round counter as it finds it.
StartGameApplyKeepRound(c, g, pick) ==
    IF g.Phase # PhaseWaiting THEN Rejected(g)
    ELSE IF ~CanStartGame(GetPlayerCount(g), c.MinPlayers, c.MaxPlayers) THEN Rejected(g)
    ELSE LET assigned == AssignRolesToPlayers(g, GetRoleDistribution(GetPlayerCount(g)),
                                              pick.shuffle)
             g2 == [assigned EXCEPT !.Phase = PhaseNight]
         IN  Accepted(g2,
                <<GameStarted(pick.ids)>>
                \o [i \in 1..Len(pick.roles) |->
                        RoleAssigned(pick.roles[i], g2.Players[pick.roles[i]].Role)]
                \o <<PhaseChanged(g2.Round, PhaseWaiting, PhaseNight)>>)

\* StartGameCommand.Apply without the test for the Waiting phase.
StartGameApplyAnyPhase(c, g, pick) ==
    IF ~CanStartGame(GetPlayerCount(g), c.MinPlayers, c.MaxPlayers) THEN Rejected(g)
    ELSE LET assigned == AssignRolesToPlayers(g, GetRoleDistribution(GetPlayerCount(g)),
                                              pick.shuffle)
             g2 == [assigned EXCEPT !.Phase = PhaseNight, !.Round = 1]
         IN  Accepted(g2,
                <<GameStarted(pick.ids)>>
                \o [i \in 1..Len(pick.roles) |->
                        RoleAssigned(pick.roles[i], g2.Players[pick.roles[i]].Role)]
                \o <<PhaseChanged(g2.Round, PhaseWaiting, PhaseNight)>>)

\* StartGameCommand.Apply that builds the role_assigned events from the
\* players as they were before AssignRolesToPlayers.
StartGameApplyStaleRoles(c, g, pick) ==
    IF g.Phase # PhaseWaiting THEN Rejected(g)
    ELSE IF ~CanStartGame(GetPlayerCount(g), c.MinPlayers, c.MaxPlayers) THEN Rejected(g)
    ELSE LET assigned == AssignRolesToPlayers(g, GetRoleDistribution(GetPlayerCount(g)),
                                              pick.shuffle)
             g2 == [assigned EXCEPT !.Phase = PhaseNight, !.Round = 1]
         IN  Accepted(g2,
                <<GameStarted(pick.ids)>>
                \o [i \in 1..Len(pick.roles) |->
                        RoleAssigned(pick.roles[i], g.Players[pick.roles[i]].Role)]
                \o <<PhaseChanged(g2.Round, PhaseWaiting, PhaseNight)>>)

\* pick = [shuffle, ids, roles]: the outcome of the shuffle and the orders of
\* the two iterations over state.Players.
StartGameApply(c, g, pick) ==
    IF g.Phase # PhaseWaiting THEN Rejected(g)
    ELSE IF ~CanStartGame(GetPlayerCount(g), c.MinPlayers, c.MaxPlayers) THEN Rejected(g)
    ELSE LET assigned == AssignRolesToPlayers(g, GetRoleDistribution(GetPlayerCount(g)),
                                              pick.shuffle)
             g2 == [assigned EXCEPT !.Phase = PhaseNight, !.Round = 1]
         IN  Accepted(g2,
                <<GameStarted(pick.ids)>>
                \o [i \in 1..Len(pick.roles) |->
                        RoleAssigned(pick.roles[i], g2.Players[pick.roles[i]].Role)]
                \o <<PhaseChanged(g2.Round, PhaseWaiting, PhaseNight)>>)

\* VoteCommand.Apply that publishes the registered vote.
VoteApplyPublish(c, g) ==
    IF g.Phase # PhaseVoting THEN Rejected(g)
    ELSE LET r == RegisterVote(g, c.VoterID, c.TargetID)
         IN  IF ~r.ok THEN Rejected(g)
             ELSE Accepted(r.g, <<[Type |-> "vote_submitted", VoterID |-> c.VoterID,
                                   TargetID |-> c.TargetID]>>)

VoteApply(c, g) ==
    IF g.Phase # PhaseVoting THEN Rejected(g)
    ELSE LET r == RegisterVote(g, c.VoterID, c.TargetID)
         IN  IF ~r.ok THEN Rejected(g) ELSE Accepted(r.g, << >>)

ChatApply(c, g) ==
    IF c.SenderID \notin DOMAIN g.Players THEN Rejected(g)
    ELSE IF ~g.Players[c.SenderID].Alive THEN Rejected(g)
    ELSE Accepted(g, <<AllChatMessage(c.SenderID)>>)

\* MafiaChatCommand.Apply without the test for the Night phase.
MafiaChatApplyAnyPhase(c, g) ==
    IF c.SenderID \notin DOMAIN g.Players THEN Rejected(g)
    ELSE IF ~g.Players[c.SenderID].Alive THEN Rejected(g)
    ELSE IF ~IsMafiaTeam(g.Players[c.SenderID].Role) THEN Rejected(g)
    ELSE Accepted(g, <<MafiaChatMessage(c.SenderID)>>)

MafiaChatApply(c, g) ==
    IF c.SenderID \notin DOMAIN g.Players THEN Rejected(g)
    ELSE IF ~g.Players[c.SenderID].Alive THEN Rejected(g)
    ELSE IF ~IsMafiaTeam(g.Players[c.SenderID].Role) THEN Rejected(g)
    ELSE IF g.Phase # PhaseNight THEN Rejected(g)
    ELSE Accepted(g, <<MafiaChatMessage(c.SenderID)>>)

NightActionApply(c, g) ==
    IF g.Phase # PhaseNight THEN Rejected(g)
    ELSE IF c.ActorID \notin DOMAIN g.Players THEN Rejected(g)
    ELSE IF ~g.Players[c.ActorID].Alive THEN Rejected(g)
    ELSE IF g.Players[c.ActorID].Role # c.Role THEN Rejected(g)
    ELSE LET r == SetNightAction(g, g.Players[c.ActorID].Role, c.ActorID, c.TargetID)
         IN  IF ~r.ok THEN Rejected(g) ELSE Accepted(r.g, << >>)

\* PhaseChangeCommand.Apply without the game_ended effect.
PhaseChangeApplyNoGameEnded(c, g) ==
    LET eliminatedPlayerID ==
            CASE g.Phase = PhaseNight -> ResolveNightActions(g)
              [] g.Phase = PhaseVoting -> ResolveVotingPhase(g)
              [] OTHER -> NoPlayer
        eliminationReason ==
            CASE g.Phase = PhaseNight -> "killed_by_mafia"
              [] g.Phase = PhaseVoting -> "voted_out"
              [] OTHER -> ""
        g1 == IF eliminatedPlayerID # NoPlayer
              THEN EliminatePlayer(g, eliminatedPlayerID).g ELSE g
        g2 == ResetPhaseData(g1)
        oldPhase == g2.Phase
        g3 == [g2 EXCEPT !.Phase = c.NewPhase,
                         !.Round = IF c.NewPhase = PhaseNight THEN g2.Round + 1
                                   ELSE g2.Round]
        over == IsGameOver(g3)
    IN  Accepted(over.g,
            <<PhaseChanged(over.g.Round, oldPhase, c.NewPhase)>>
            \o (IF eliminatedPlayerID # NoPlayer
                THEN <<PlayerEliminated(eliminatedPlayerID, eliminationReason)>>
                ELSE << >>))

\* PhaseChangeCommand.Apply that appends phase_changed last instead of first.
PhaseChangeApplyPhaseLast(c, g) ==
    LET eliminatedPlayerID ==
            CASE g.Phase = PhaseNight -> ResolveNightActions(g)
              [] g.Phase = PhaseVoting -> ResolveVotingPhase(g)
              [] OTHER -> NoPlayer
        eliminationReason ==
            CASE g.Phase = PhaseNight -> "killed_by_mafia"
              [] g.Phase = PhaseVoting -> "voted_out"
              [] OTHER -> ""
        g1 == IF eliminatedPlayerID # NoPlayer
              THEN EliminatePlayer(g, eliminatedPlayerID).g ELSE g
        g2 == ResetPhaseData(g1)
        oldPhase == g2.Phase
        g3 == [g2 EXCEPT !.Phase = c.NewPhase,
                         !.Round = IF c.NewPhase = PhaseNight THEN g2.Round + 1
                                   ELSE g2.Round]
        over == IsGameOver(g3)
    IN  Accepted(over.g,
            (IF eliminatedPlayerID # NoPlayer
             THEN <<PlayerEliminated(eliminatedPlayerID, eliminationReason)>>
             ELSE << >>)
            \o (IF over.over THEN <<GameEnded(over.g.Winner)>> ELSE << >>)
            \o <<PhaseChanged(over.g.Round, oldPhase, c.NewPhase)>>)

PhaseChangeApply(c, g) ==
    LET eliminatedPlayerID ==
            CASE g.Phase = PhaseNight -> ResolveNightActions(g)
              [] g.Phase = PhaseVoting -> ResolveVotingPhase(g)
              [] OTHER -> NoPlayer
        eliminationReason ==
            CASE g.Phase = PhaseNight -> "killed_by_mafia"
              [] g.Phase = PhaseVoting -> "voted_out"
              [] OTHER -> ""
        g1 == IF eliminatedPlayerID # NoPlayer
              THEN EliminatePlayer(g, eliminatedPlayerID).g ELSE g
        g2 == ResetPhaseData(g1)
        oldPhase == g2.Phase
        g3 == [g2 EXCEPT !.Phase = c.NewPhase,
                         !.Round = IF c.NewPhase = PhaseNight THEN g2.Round + 1
                                   ELSE g2.Round]
        over == IsGameOver(g3)
    IN  Accepted(over.g,
            <<PhaseChanged(over.g.Round, oldPhase, c.NewPhase)>>
            \o (IF eliminatedPlayerID # NoPlayer
                THEN <<PlayerEliminated(eliminatedPlayerID, eliminationReason)>>
                ELSE << >>)
            \o (IF over.over THEN <<GameEnded(over.g.Winner)>> ELSE << >>))

EliminatePlayerApply(c, g) ==
    LET r == EliminatePlayer(g, c.PlayerID)
    IN  IF r.player = NoPlayer THEN Rejected(g)
        ELSE LET over == IsGameOver(r.g)
             IN  Accepted(over.g,
                    <<PlayerEliminated(c.PlayerID, c.Reason)>>
                    \o (IF over.over THEN <<GameEnded(over.g.Winner)>> ELSE << >>))

\* cmd.Apply(e.state): the dispatch on the command's dynamic type.
Apply(cmd, g, pick) ==
    CASE cmd.Type = "AddPlayer" -> AddPlayerApply(cmd, g)
      [] cmd.Type = "StartGame" -> StartGameApply(cmd, g, pick)
      [] cmd.Type = "Vote" -> VoteApply(cmd, g)
      [] cmd.Type = "Chat" -> ChatApply(cmd, g)
      [] cmd.Type = "MafiaChat" -> MafiaChatApply(cmd, g)
      [] cmd.Type = "NightAction" -> NightActionApply(cmd, g)
      [] cmd.Type = "PhaseChange" -> PhaseChangeApply(cmd, g)
      [] cmd.Type = "EliminatePlayer" -> EliminatePlayerApply(cmd, g)

\* ------------------------------------------------------------------ name generator

\* A configured list of player names (cfg.PlayerNames).
PlayerNames == <<"Alice", "Bob", "Charlie", "Diana">>

ErrNoMoreNames == "no more names available"

\* NewGenerator(names) with counter 0 and its mutex free, and the goroutines
\* about to call Next: pc is each one's position in Next, left the calls it
\* still makes, name its local variable (with the index read); returned is the history of the
\* results of Next in the order the calls held the mutex.
NewGenerator(names, callers) ==
    [names |-> names, counter |-> 0, mu |-> 0,
     pc |-> [c \in callers |-> "call"],
     left |-> [c \in callers |-> MaxCalls],
     name |-> [c \in callers |-> <<0, "">>],
     returned |-> << >>]

\* Remaining, taken with the mutex free.
Remaining(g) == Len(g.names) - g.counter

\* Next entered without ng.mu.Lock().
NextLockNoMutex(c) ==
    /\ ng.pc[c] = "call"
    /\ ng.left[c] > 0
    /\ ng' = [ng EXCEPT !.mu = c, !.pc[c] = "check"]

\* Next: ng.mu.Lock().
NextLock(c) ==
    /\ ng.pc[c] = "call"
    /\ ng.left[c] > 0
    /\ ng.mu = 0
    /\ ng' = [ng EXCEPT !.mu = c, !.pc[c] = "check"]

\* Next: if ng.counter >= len(ng.names) { return "", ErrNoMoreNames }.
NextCheck(c) ==
    /\ ng.pc[c] = "check"
    /\ ng' = IF ng.counter >= Len(ng.names)
             THEN [ng EXCEPT !.pc[c] = "unlock",
                             !.returned = Append(@, [pos |-> 0, name |-> "", err |-> ErrNoMoreNames])]
             ELSE [ng EXCEPT !.pc[c] = "read"]

\* Next: name := ng.names[ng.counter].  Past the end of the slice the index
\* panics; the model then reads no name.
NextRead(c) ==
    /\ ng.pc[c] = "read"
    /\ ng' = [ng EXCEPT !.pc[c] = "incr",
                        !.name[c] = IF ng.counter < Len(ng.names)
                                    THEN <<ng.counter + 1, ng.names[ng.counter + 1]>>
                                    ELSE <<ng.counter + 1, "">>]

\* Next: ng.counter++; return name, nil.
NextIncr(c) ==
    /\ ng.pc[c] = "incr"
    /\ ng' = [ng EXCEPT !.pc[c] = "unlock",
                        !.counter = @ + 1,
                        !.returned = Append(@, [pos |-> ng.name[c][1], name |-> ng.name[c][2],
                                                err |-> "nil"])]

\* Next: the deferred ng.mu.Unlock().
NextUnlock(c) ==
    /\ ng.pc[c] = "unlock"
    /\ ng' = [ng EXCEPT !.pc[c] = "call", !.left[c] = @ - 1, !.mu = 0]

\* ------------------------------------------------------------------ timers

PhaseNightTimeout == 2
PhaseDayTimeout == 5
PhaseVotingTimeout == 1

\* Durations in minutes.
GetPhaseTimeout(phase, nightTimeout, dayTimeout, votingTimeout) ==
    CASE phase = PhaseNight -> nightTimeout
      [] phase = PhaseDay -> dayTimeout
      [] phase = PhaseVoting -> votingTimeout
      [] OTHER -> 0

\* GetNextPhase that goes from Day straight back to Night.
GetNextPhaseSkipVoting(current) ==
    CASE current = PhaseNight -> PhaseDay
      [] current = PhaseDay -> PhaseNight
      [] current = PhaseVoting -> PhaseNight
      [] OTHER -> PhaseWaiting

GetNextPhase(current) ==
    CASE current = PhaseNight -> PhaseDay
      [] current = PhaseDay -> PhaseVoting
      [] current = PhaseVoting -> PhaseNight
      [] OTHER -> PhaseWaiting

\* tm.phaseTimer = nil.
NoTimer == [id |-> "", round |-> 0, next |-> ""]

NewTimerManager == [phaseTimer |-> NoTimer, phaseTimerID |-> <<"", 0>>]

\* A timer manager together with the runtime's set of armed timers.
\* timer.Stop() on the timer the manager holds: a timer that is still armed
\* is taken off the runtime and its callback never starts; one that has
\* fired is not affected.
Stop(t) ==
    [t EXCEPT !.armed = t.armed \ {t.tm.phaseTimer},
              !.cancelled = t.cancelled \cup ({t.tm.phaseTimer} \cap t.armed)]

\* SchedulePhaseTimeout that arms the new timer without stopping the previous one.
SchedulePhaseTimeoutNoStop(t, currentPhase, round, nextPhase) ==
    LET timer == [id |-> currentPhase, round |-> round, next |-> nextPhase]
    IN  [t EXCEPT !.tm = [phaseTimer |-> timer, phaseTimerID |-> <<currentPhase, round>>],
                  !.armed = t.armed \cup {timer}]

\* SchedulePhaseTimeout, under tm.mu: stop the previous timer, arm the new one.
SchedulePhaseTimeout(t, currentPhase, round, nextPhase) ==
    LET timer == [id |-> currentPhase, round |-> round, next |-> nextPhase]
        s == IF t.tm.phaseTimer # NoTimer THEN Stop(t) ELSE t
    IN  [s EXCEPT !.tm = [phaseTimer |-> timer, phaseTimerID |-> <<currentPhase, round>>],
                  !.armed = s.armed \cup {timer}]

\* CancelPhaseTimer that forgets the timer without stopping it.
CancelPhaseTimerNoStop(t) ==
    IF t.tm.phaseTimer # NoTimer
    THEN [t EXCEPT !.tm = [phaseTimer |-> NoTimer, phaseTimerID |-> <<"", 0>>],
                   !.cancelled = t.cancelled \cup ({t.tm.phaseTimer} \cap t.armed)]
    ELSE t

\* CancelPhaseTimer, under tm.mu.
CancelPhaseTimer(t) ==
    IF t.tm.phaseTimer # NoTimer
    THEN [Stop(t) EXCEPT !.tm = [phaseTimer |-> NoTimer, phaseTimerID |-> <<"", 0>>]]
    ELSE t

\* ------------------------------------------------------------------ loop

\* The outcomes of the shuffle and of the map iterations in StartGame.
Picks(g) ==
    [shuffle : 0..(ShuffleChoices - 1),
     ids : MapOrders(DOMAIN g.Players),
     roles : MapOrders(DOMAIN g.Players)]

\* Phase 3 of run that arms a timer for the current phase after every
\* accepted command, whatever its type.
RunTimersEveryCommand(cmd, g, t) ==
    LET timeout == GetPhaseTimeout(g.Phase, PhaseNightTimeout, PhaseDayTimeout,
                                   PhaseVotingTimeout)
        rearm(u) == IF timeout > 0
                    THEN SchedulePhaseTimeout(u, g.Phase, g.Round, GetNextPhase(g.Phase))
                    ELSE u
    IN  CASE cmd.Type = "PhaseChange" -> rearm(CancelPhaseTimer(t))
          [] OTHER -> rearm(t)

\* Phase 3 of run: the timers after an accepted command.
RunTimers(cmd, g, t) ==
    LET timeout == GetPhaseTimeout(g.Phase, PhaseNightTimeout, PhaseDayTimeout,
                                   PhaseVotingTimeout)
        rearm(u) == IF timeout > 0
                    THEN SchedulePhaseTimeout(u, g.Phase, g.Round, GetNextPhase(g.Phase))
                    ELSE u
    IN  CASE cmd.Type = "PhaseChange" -> rearm(CancelPhaseTimer(t))
          [] cmd.Type = "StartGame" -> rearm(t)
          [] OTHER -> t

\* Phase 2 of run: the outcomes of the Execute calls on one command's
\* effects, as the set of positions whose Publish returned an error.  Every
\* effect is executed whatever the outcome of the ones before it.
PublishErrors(effects) ==
    IF producer.faulty
    THEN {f \in SUBSET (1..Len(effects)) : Cardinality(f) <= MaxPublishErrors}
    ELSE {{}}

\* StartGameCommand.Apply passes its validations and AssignRolesToPlayers then
\* assigns more roles than there are players: shuffledPlayers[playerIndex]
\* is indexed out of range and the loop goroutine panics.
StartGamePanics(c, g) ==
    /\ g.Phase = PhaseWaiting
    /\ CanStartGame(GetPlayerCount(g), c.MinPlayers, c.MaxPlayers)
    /\ Len(RoleSlots(GetRoleDistribution(GetPlayerCount(g)))) > GetPlayerCount(g)

\* run without the "continue" after a failed Apply: phase 3 sees to the
\* timers after a rejected command as well.
RunNoContinue(cmd) ==
    \E pick \in (IF cmd.Type = "StartGame" THEN Picks(state)
                 ELSE {[shuffle |-> 0, ids |-> << >>, roles |-> << >>]}) :
        LET r == Apply(cmd, state, pick)
            t == RunTimers(cmd, r.g, [tm |-> tm, armed |-> armed, cancelled |-> cancelled])
        IN  /\ running' = running
            /\ lastErr' = r.err
            /\ savedLastNight' =
                    IF savedLastNight # << >> /\ cmd.Type = "PhaseChange"
                       /\ state.Phase = PhaseNight
                    THEN <<state.DoctorTarget>> ELSE savedLastNight
            /\ state' = r.g
            /\ out' = r.effects
            /\ \E f \in PublishErrors(r.effects) : producer' = [producer EXCEPT !.failed = f]
            /\ tm' = t.tm
            /\ armed' = t.armed
            /\ cancelled' = t.cancelled

\* run with a "break" on the first effect whose Execute fails: the effects
\* after it are not executed and phase 3 is skipped.
RunStopOnError(cmd) ==
    \E pick \in (IF cmd.Type = "StartGame" THEN Picks(state)
                 ELSE {[shuffle |-> 0, ids |-> << >>, roles |-> << >>]}) :
        LET r == Apply(cmd, state, pick)
            t == RunTimers(cmd, r.g, [tm |-> tm, armed |-> armed, cancelled |-> cancelled])
        IN  /\ running' = running
            /\ lastErr' = r.err
            /\ savedLastNight' =
                    IF savedLastNight # << >> /\ cmd.Type = "PhaseChange"
                       /\ state.Phase = PhaseNight
                    THEN <<state.DoctorTarget>> ELSE savedLastNight
            /\ IF r.err
               THEN /\ out' = << >>
                    /\ producer' = [producer EXCEPT !.failed = {}]
                    /\ UNCHANGED <<state, tm, armed, cancelled>>
               ELSE \E f \in PublishErrors(r.effects) :
                        /\ state' = r.g
                        /\ producer' = [producer EXCEPT !.failed = f]
                        /\ IF f = {}
                           THEN /\ out' = r.effects
                                /\ tm' = t.tm
                                /\ armed' = t.armed
                                /\ cancelled' = t.cancelled
                           ELSE /\ out' = SubSeq(r.effects, 1, CHOOSE i \in f : \A j \in f : i <= j)
                                /\ UNCHANGED <<tm, armed, cancelled>>

\* One iteration of run on the command it received: apply, publish the
\* effects in order, then see to the phase timer.  A panic in Apply ends the
\* process: the loop is no longer running and nothing is published.
Run(cmd) ==
    \E pick \in (IF cmd.Type = "StartGame" THEN Picks(state)
                 ELSE {[shuffle |-> 0, ids |-> << >>, roles |-> << >>]}) :
        LET r == Apply(cmd, state, pick)
            t == RunTimers(cmd, r.g, [tm |-> tm, armed |-> armed, cancelled |-> cancelled])
        IN  IF cmd.Type = "StartGame" /\ StartGamePanics(cmd, state)
            THEN /\ running' = FALSE
                 /\ lastErr' = FALSE
                 /\ out' = << >>
                 /\ producer' = [producer EXCEPT !.failed = {}]
                 /\ UNCHANGED <<state, tm, armed, cancelled, savedLastNight>>
            ELSE /\ running' = running
                 /\ lastErr' = r.err
                 /\ savedLastNight' =
                        IF savedLastNight # << >> /\ cmd.Type = "PhaseChange"
                           /\ state.Phase = PhaseNight
                        THEN <<state.DoctorTarget>> ELSE savedLastNight
                 /\ IF r.err
                    THEN /\ out' = << >>
                         /\ producer' = [producer EXCEPT !.failed = {}]
                         /\ UNCHANGED <<state, tm, armed, cancelled>>
                    ELSE /\ state' = r.g
                         /\ out' = r.effects
                         /\ \E f \in PublishErrors(r.effects) :
                                producer' = [producer EXCEPT !.failed = f]
                         /\ tm' = t.tm
                         /\ armed' = t.armed
                         /\ cancelled' = t.cancelled

\* ------------------------------------------------------------------ actions

Actors == 0..MaxActor
Targets == 0..MaxTarget
ChatSenders == 0..MaxChat
NightRoles == {RoleMafia, RoleDoctor, RoleSheriff, RoleVillager}

\* A command that reached the loop ahead of whatever cmdCh holds now.
Process(cmd) ==
    /\ running
    /\ Run(cmd)
    /\ UNCHANGED <<ng, sending, cmdCh, handler, handled, mainPc>>

DoAddPlayer == Process(AddPlayerCommand)

DoStartGame == Process(StartGameCommand)

DoVote == \E v \in Actors, t \in Targets : Process(VoteCommand(v, t))

DoChat == \E s \in ChatSenders : Process(ChatCommand(s))

DoMafiaChat == \E s \in ChatSenders : Process(MafiaChatCommand(s))

DoNightAction ==
    \E r \in NightRoles, a \in Actors, t \in Targets : Process(NightActionCommand(r, a, t))

DoEliminatePlayer == \E p \in Targets : Process(EliminatePlayerCommand(p, "voted_out"))

\* The runtime fires an armed timer: its callback starts and reaches its select.
TimerFire ==
    \E t \in armed :
        /\ t.next = PhaseNight => state.Round < MaxRound
        /\ armed' = armed \ {t}
        /\ sending' = Append(sending, t)
        /\ UNCHANGED <<ng, state, out, producer, handled, lastErr, savedLastNight, cancelled, tm, cmdCh, handler, mainPc, running>>

RemoveAt(s, i) == [j \in 1..(Len(s) - 1) |-> IF j < i THEN s[j] ELSE s[j + 1]]

\* The callback's select with a "default:" branch: a full channel drops the command.
TimerSendOrDrop(i) ==
    /\ cmdCh' = IF Len(cmdCh) < QueueCap
                THEN Append(cmdCh, PhaseChangeCommand(sending[i].next))
                ELSE cmdCh
    /\ sending' = RemoveAt(sending, i)
    /\ UNCHANGED <<ng, state, out, producer, handled, lastErr, savedLastNight, cancelled, tm, armed, handler, mainPc, running>>

\* The callback's select, case cmdCh <- cmd: taken only when the channel has room.
TimerSend(i) ==
    /\ Len(cmdCh) < QueueCap
    /\ cmdCh' = Append(cmdCh, PhaseChangeCommand(sending[i].next))
    /\ sending' = RemoveAt(sending, i)
    /\ UNCHANGED <<ng, state, out, producer, handled, lastErr, savedLastNight, cancelled, tm, armed, handler, mainPc, running>>

\* The callback's select, case <-ctx.Done().
TimerGiveUp(i) ==
    /\ ctxDone
    /\ sending' = RemoveAt(sending, i)
    /\ UNCHANGED <<ng, state, out, producer, handled, lastErr, savedLastNight, cancelled, tm, armed, cmdCh, handler, mainPc, running>>

TimerCallback == \E i \in 1..Len(sending) : TimerSend(i) \/ TimerGiveUp(i)

\* run's receive on a channel that hands over the command sent last.
LoopReceiveLast ==
    /\ running
    /\ cmdCh # << >>
    /\ Run(cmdCh[Len(cmdCh)])
    /\ cmdCh' = SubSeq(cmdCh, 1, Len(cmdCh) - 1)
    /\ UNCHANGED <<ng, sending, handler, handled, mainPc>>

\* run's select, case cmd := <-e.cmdCh.
LoopReceive ==
    /\ running
    /\ cmdCh # << >>
    /\ Run(Head(cmdCh))
    /\ cmdCh' = Tail(cmdCh)
    /\ UNCHANGED <<ng, sending, handler, handled, mainPc>>

\* ------------------------------------------------------------------ game specification

Init ==
    /\ ng = NewGenerator(PlayerNames, {})
    /\ state = gameState
    /\ out = << >>
    /\ producer = [faulty |-> FALSE, failed |-> {}]
    /\ handled = << >>
    /\ lastErr = FALSE
    /\ savedLastNight = << >>
    /\ tm = NewTimerManager
    /\ armed = {}
    /\ cancelled = {}
    /\ sending = << >>
    /\ cmdCh = << >>
    /\ handler = << >>
    /\ mainPc = "run"
    /\ running = TRUE

\* Every command in any order, each applied by the loop as it arrives; the
\* PhaseChange commands come from the phase timer through cmdCh.
Next ==
    \/ DoAddPlayer
    \/ DoStartGame
    \/ DoVote
    \/ DoChat
    \/ DoMafiaChat
    \/ DoNightAction
    \/ DoEliminatePlayer
    \/ TimerFire
    \/ \E i \in 1..Len(sending) : TimerSend(i)
    \/ LoopReceive

Spec == Init /\ [][Next]_vars

\* The same game with the history variables kept.
InitHistory ==
    /\ ng = NewGenerator(PlayerNames, {})
    /\ state = gameState
    /\ out = << >>
    /\ producer = [faulty |-> FALSE, failed |-> {}]
    /\ handled = << >>
    /\ lastErr = FALSE
    /\ savedLastNight = <<NoPlayer>>
    /\ tm = NewTimerManager
    /\ armed = {}
    /\ cancelled = {}
    /\ sending = << >>
    /\ cmdCh = << >>
    /\ handler = << >>
    /\ mainPc = "run"
    /\ running = TRUE

SpecHistory == InitHistory /\ [][Next]_vars

\* ------------------------------------------------------------------ game specification, failing producer

\* The game specification with a producer whose Publish can return an error.
InitFaulty ==
    /\ ng = NewGenerator(PlayerNames, {})
    /\ state = gameState
    /\ out = << >>
    /\ producer = [faulty |-> TRUE, failed |-> {}]
    /\ handled = << >>
    /\ lastErr = FALSE
    /\ savedLastNight = << >>
    /\ tm = NewTimerManager
    /\ armed = {}
    /\ cancelled = {}
    /\ sending = << >>
    /\ cmdCh = << >>
    /\ handler = << >>
    /\ mainPc = "run"
    /\ running = TRUE

SpecFaulty == InitFaulty /\ [][Next]_vars

\* ------------------------------------------------------------------ timer specification

\* The TimerManager driven directly, as its tests drive it: schedule and
\* cancel calls in any order while the runtime fires the armed timers.
\* A timer is identified by its phase and round, so a call never schedules
\* a timer the runtime has seen and not finished with.
ScheduleCall ==
    \E ph \in {PhaseNight, PhaseDay, PhaseVoting}, r \in 1..MaxRound :
        LET timer == [id |-> ph, round |-> r, next |-> GetNextPhase(ph)]
            t == SchedulePhaseTimeout([tm |-> tm, armed |-> armed, cancelled |-> cancelled],
                                      ph, r, GetNextPhase(ph))
        IN  /\ timer \notin cancelled \cup armed \cup {sending[i] : i \in 1..Len(sending)}
            /\ tm' = t.tm
            /\ armed' = t.armed
            /\ cancelled' = t.cancelled
    /\ UNCHANGED <<ng, state, out, producer, handled, lastErr, savedLastNight, sending, cmdCh, handler, mainPc, running>>

CancelCall ==
    /\ LET t == CancelPhaseTimer([tm |-> tm, armed |-> armed, cancelled |-> cancelled])
       IN  tm' = t.tm /\ armed' = t.armed /\ cancelled' = t.cancelled
    /\ UNCHANGED <<ng, state, out, producer, handled, lastErr, savedLastNight, sending, cmdCh, handler, mainPc, running>>

NextTimers == ScheduleCall \/ CancelCall \/ TimerFire \/ TimerCallback

SpecTimers == Init /\ [][NextTimers]_vars

\* ------------------------------------------------------------------ name generator specification

\* A generator over the first k configured names and MaxCallers goroutines
\* calling Next.
InitNames ==
    /\ \E k \in 1..Len(PlayerNames) :
            ng = NewGenerator(SubSeq(PlayerNames, 1, k), 1..MaxCallers)
    /\ state = gameState
    /\ out = << >>
    /\ producer = [faulty |-> FALSE, failed |-> {}]
    /\ handled = << >>
    /\ lastErr = FALSE
    /\ savedLastNight = << >>
    /\ tm = NewTimerManager
    /\ armed = {}
    /\ cancelled = {}
    /\ sending = << >>
    /\ cmdCh = << >>
    /\ handler = << >>
    /\ mainPc = "run"
    /\ running = TRUE

GoNextLock ==
    /\ \E c \in DOMAIN ng.pc : NextLock(c)
    /\ UNCHANGED <<state, out, producer, handled, lastErr, savedLastNight, tm, armed, cancelled, sending, cmdCh, handler, mainPc, running>>

GoNextCheck ==
    /\ \E c \in DOMAIN ng.pc : NextCheck(c)
    /\ UNCHANGED <<state, out, producer, handled, lastErr, savedLastNight, tm, armed, cancelled, sending, cmdCh, handler, mainPc, running>>

GoNextRead ==
    /\ \E c \in DOMAIN ng.pc : NextRead(c)
    /\ UNCHANGED <<state, out, producer, handled, lastErr, savedLastNight, tm, armed, cancelled, sending, cmdCh, handler, mainPc, running>>

GoNextIncr ==
    /\ \E c \in DOMAIN ng.pc : NextIncr(c)
    /\ UNCHANGED <<state, out, producer, handled, lastErr, savedLastNight, tm, armed, cancelled, sending, cmdCh, handler, mainPc, running>>

GoNextUnlock ==
    /\ \E c \in DOMAIN ng.pc : NextUnlock(c)
    /\ UNCHANGED <<state, out, producer, handled, lastErr, savedLastNight, tm, armed, cancelled, sending, cmdCh, handler, mainPc, running>>

NextNames == GoNextLock \/ GoNextCheck \/ GoNextRead \/ GoNextIncr \/ GoNextUnlock

SpecNames == InitNames /\ [][NextNames]_vars

\* ------------------------------------------------------------------ queue specification

\* The commands main sends before the consumer starts: one AddPlayer per
\* configured minimum player, then StartGame.
Bootstrap == [i \in 1..(MinPlayers + 1) |-> IF i <= MinPlayers THEN AddPlayerCommand
                                                               ELSE StartGameCommand]

\* The events the consumer delivers: one of each inbound kind and one value
\* that is none of them.
InboundEvents ==
    {NightAction(RoleMafia, 3, 1), VoteSubmitted(1, 3), AllChatMessage(1), MafiaChatMessage(3),
     PlayerThoughts(1), GameEnded(WinnerMafia)}

\* HandleEvent with VoterID and TargetID of a vote exchanged.
HandleEventSwapped(ev) ==
    CASE ev.Type = "vote_submitted" ->
            [send |-> <<VoteCommand(ev.TargetID, ev.VoterID)>>, ret |-> "nil"]
      [] ev.Type = "all_chat" -> [send |-> <<ChatCommand(ev.SenderID)>>, ret |-> "nil"]
      [] ev.Type = "night_action" ->
            [send |-> <<NightActionCommand(ev.Role, ev.ActorID, ev.TargetID)>>, ret |-> "nil"]
      [] ev.Type = "mafia_chat" -> [send |-> <<MafiaChatCommand(ev.SenderID)>>, ret |-> "nil"]
      [] ev.Type = "player_thoughts" -> [send |-> << >>, ret |-> "nil"]
      [] OTHER -> [send |-> << >>, ret |-> "unknown event type"]

\* HandleEvent's type switch: the command its select then sends (none for
\* player_thoughts and for an unknown value) and the value it returns when
\* the send is not cancelled.
HandleEvent(ev) ==
    CASE ev.Type = "vote_submitted" ->
            [send |-> <<VoteCommand(ev.VoterID, ev.TargetID)>>, ret |-> "nil"]
      [] ev.Type = "all_chat" -> [send |-> <<ChatCommand(ev.SenderID)>>, ret |-> "nil"]
      [] ev.Type = "night_action" ->
            [send |-> <<NightActionCommand(ev.Role, ev.ActorID, ev.TargetID)>>, ret |-> "nil"]
      [] ev.Type = "mafia_chat" -> [send |-> <<MafiaChatCommand(ev.SenderID)>>, ret |-> "nil"]
      [] ev.Type = "player_thoughts" -> [send |-> << >>, ret |-> "nil"]
      [] OTHER -> [send |-> << >>, ret |-> "unknown event type"]

\* The commands HandleEvent makes of the inbound events.
InboundCommands ==
    {HandleEvent(ev).send[1] : ev \in {e \in InboundEvents : HandleEvent(e).send # << >>}}

\* Engine.AddPlayer / Engine.StartGame: main's blocking send of its next bootstrap command.
BootstrapSend ==
    /\ mainPc = "boot"
    /\ handler # << >>
    /\ Len(cmdCh) < QueueCap
    /\ cmdCh' = Append(cmdCh, Head(handler))
    /\ handler' = Tail(handler)
    /\ UNCHANGED <<ng, state, out, producer, handled, lastErr, savedLastNight, cancelled, tm, armed, sending, mainPc, running>>

\* main starts the consumer once the bootstrap has been sent.
ConsumerStart ==
    /\ mainPc = "boot"
    /\ handler = << >>
    /\ mainPc' = "run"
    /\ UNCHANGED <<ng, state, out, producer, handled, lastErr, savedLastNight, cancelled, tm, armed, sending, cmdCh, handler, running>>

\* HandleEvent is called with the consumer's next event: it builds the
\* command and reaches its select, or returns at once.
HandlerRecv ==
    /\ mainPc = "run"
    /\ handler = << >>
    /\ \E ev \in InboundEvents :
        LET h == HandleEvent(ev)
        IN  /\ handler' = h.send
            /\ handled' = IF handled = << >> THEN << >>
                          ELSE <<[ev |-> <<ev>>,
                                  ret |-> IF h.send # << >> THEN "pending" ELSE h.ret]>>
    /\ UNCHANGED <<ng, state, out, producer, lastErr, savedLastNight, cancelled, tm, armed, sending, cmdCh, mainPc, running>>

\* HandleEvent's select, case cmdCh <- cmd: taken only when the channel has room.
HandlerSend ==
    /\ mainPc # "boot"
    /\ handler # << >>
    /\ Len(cmdCh) < QueueCap
    /\ cmdCh' = Append(cmdCh, Head(handler))
    /\ handler' = Tail(handler)
    /\ handled' = IF handled = << >> THEN << >> ELSE <<[handled[1] EXCEPT !.ret = "nil"]>>
    /\ UNCHANGED <<ng, state, out, producer, lastErr, savedLastNight, cancelled, tm, armed, sending, mainPc, running>>

\* HandleEvent's select, case <-ctx.Done(): the consumer's context is main's.
HandlerCancelled ==
    /\ mainPc # "boot"
    /\ inCtxDone
    /\ handler # << >>
    /\ handler' = Tail(handler)
    /\ handled' = IF handled = << >> THEN << >>
                  ELSE <<[handled[1] EXCEPT !.ret = "context canceled"]>>
    /\ UNCHANGED <<ng, state, out, producer, lastErr, savedLastNight, cancelled, tm, armed, sending, cmdCh, mainPc, running>>

\* main receives the termination signal and cancels its context.
MainCancel ==
    /\ mainPc = "run"
    /\ mainPc' = "cancelled"
    /\ UNCHANGED <<ng, state, out, producer, handled, lastErr, savedLastNight, cancelled, tm, armed, sending, cmdCh, handler, running>>

\* Stop, first statement: e.timers.Shutdown().
StopShutdownTimers ==
    /\ mainPc = "cancelled"
    /\ LET t == CancelPhaseTimer([tm |-> tm, armed |-> armed, cancelled |-> cancelled])
       IN  tm' = t.tm /\ armed' = t.armed /\ cancelled' = t.cancelled
    /\ mainPc' = "shutdown"
    /\ UNCHANGED <<ng, state, out, producer, handled, lastErr, savedLastNight, sending, cmdCh, handler, running>>

\* Stop, second statement: e.cancel().
StopCancel ==
    /\ mainPc = "shutdown"
    /\ mainPc' = "stopping"
    /\ UNCHANGED <<ng, state, out, producer, handled, lastErr, savedLastNight, cancelled, tm, armed, sending, cmdCh, handler, running>>

\* Stop, third statement: e.wg.Wait() returns once run has returned.
StopWait ==
    /\ mainPc = "stopping"
    /\ ~running
    /\ mainPc' = "stopped"
    /\ UNCHANGED <<ng, state, out, producer, handled, lastErr, savedLastNight, cancelled, tm, armed, sending, cmdCh, handler, running>>

\* run's select, case <-e.ctx.Done().
LoopExit ==
    /\ running
    /\ ctxDone
    /\ running' = FALSE
    /\ UNCHANGED <<ng, state, out, producer, handled, lastErr, savedLastNight, cancelled, tm, armed, sending, cmdCh, handler, mainPc>>

InitQ ==
    /\ ng = NewGenerator(PlayerNames, {})
    /\ state = gameState
    /\ out = << >>
    /\ producer = [faulty |-> FALSE, failed |-> {}]
    /\ handled = << >>
    /\ lastErr = FALSE
    /\ savedLastNight = << >>
    /\ tm = NewTimerManager
    /\ armed = {}
    /\ cancelled = {}
    /\ sending = << >>
    /\ cmdCh = << >>
    /\ handler = Bootstrap
    /\ mainPc = "boot"
    /\ running = TRUE

\* The engine as main runs it: every command reaches the loop through cmdCh.
NextQ ==
    \/ BootstrapSend
    \/ ConsumerStart
    \/ HandlerRecv
    \/ HandlerSend
    \/ HandlerCancelled
    \/ TimerFire
    \/ TimerCallback
    \/ LoopReceive
    \/ LoopExit
    \/ MainCancel
    \/ StopShutdownTimers
    \/ StopCancel
    \/ StopWait

SpecQ == InitQ /\ [][NextQ]_vars

\* ------------------------------------------------------------------ handler specification

\* The engine specification with the HandleEvent calls and their return
\* values kept.
InitHandler ==
    /\ ng = NewGenerator(PlayerNames, {})
    /\ state = gameState
    /\ out = << >>
    /\ producer = [faulty |-> FALSE, failed |-> {}]
    /\ handled = <<[ev |-> << >>, ret |-> "nil"]>>
    /\ lastErr = FALSE
    /\ savedLastNight = << >>
    /\ tm = NewTimerManager
    /\ armed = {}
    /\ cancelled = {}
    /\ sending = << >>
    /\ cmdCh = << >>
    /\ handler = Bootstrap
    /\ mainPc = "boot"
    /\ running = TRUE

SpecHandler == InitHandler /\ [][NextQ]_vars

\* ------------------------------------------------------------------ elimination specification

\* An EliminatePlayer command for any player of a full table.
DoEliminateAnyPlayer ==
    \E p \in 1..MaxPlayers : Process(EliminatePlayerCommand(p, "voted_out"))

\* A game in which players are eliminated by EliminatePlayer commands, in
\* any order and at any time, while the phase timer runs.
NextEliminate ==
    \/ DoAddPlayer
    \/ DoStartGame
    \/ DoEliminateAnyPlayer
    \/ TimerFire
    \/ \E i \in 1..Len(sending) : TimerSend(i)
    \/ LoopReceive

SpecEliminate == Init /\ [][NextEliminate]_vars

\* ------------------------------------------------------------------ fair specification

\* The engine as main runs it while no termination signal arrives: main
\* never cancels and Stop is never called.
NextLive ==
    \/ BootstrapSend
    \/ ConsumerStart
    \/ HandlerRecv
    \/ HandlerSend
    \/ TimerFire
    \/ \E i \in 1..Len(sending) : TimerSend(i)
    \/ LoopReceive

\* The step in which the loop takes the command at the head of cmdCh: the
\* LoopReceive steps, which are possible exactly when the loop is running
\* and a command waits.
LoopTakes == running /\ cmdCh # << >> /\ cmdCh' = Tail(cmdCh)

\* The runtime fires an armed timer once its duration has elapsed (weak
\* fairness of TimerFire) and the loop goroutine keeps taking its select's
\* receive while a command waits (weak fairness of LoopReceive, written out:
\* infinitely often no command waits or infinitely often one is taken).  A
\* callback blocked on the full channel waits in the channel's queue of
\* senders, which a receive serves oldest first, so the inbound handler
\* cannot overtake it for ever: a send that has room again and again is
\* made (strong fairness of the send).
Fairness ==
    /\ WF_vars(TimerFire)
    /\ []<>(~(running /\ cmdCh # << >>)) \/ []<><<LoopTakes>>_vars
    /\ SF_vars(\E i \in 1..Len(sending) : TimerSend(i))

SpecLive == InitQ /\ [][NextLive]_vars /\ Fairness

\* ------------------------------------------------------------------ configured specification

\* The commands sent to an engine configured with GameMinPlayers = minPlayers
\* and GameMaxPlayers = maxPlayers: adds AddPlayer calls, StartGame, and then
\* one more AddPlayer and one more StartGame.
ConfiguredBootstrap(minPlayers, maxPlayers, adds) ==
    LET add == [AddPlayerCommand EXCEPT !.MaxPlayers = maxPlayers]
        start == [StartGameCommand EXCEPT !.MinPlayers = minPlayers,
                                          !.MaxPlayers = maxPlayers]
    IN  [i \in 1..adds |-> add] \o <<start, add, start>>

\* Every configuration config validation accepts (min >= 1, max >= min), up
\* to the bounds, and every number of AddPlayer calls up to one past the maximum.
InitConfig ==
    /\ ng = NewGenerator(PlayerNames, {})
    /\ state = gameState
    /\ out = << >>
    /\ producer = [faulty |-> FALSE, failed |-> {}]
    /\ handled = << >>
    /\ lastErr = FALSE
    /\ savedLastNight = << >>
    /\ tm = NewTimerManager
    /\ armed = {}
    /\ cancelled = {}
    /\ sending = << >>
    /\ cmdCh = << >>
    /\ \E minPlayers \in 1..ConfigMinBound :
        \E maxPlayers \in minPlayers..ConfigMaxBound :
            \E adds \in 0..(maxPlayers + 1) :
                handler = ConfiguredBootstrap(minPlayers, maxPlayers, adds)
    /\ mainPc = "boot"
    /\ running = TRUE

NextConfig ==
    \/ BootstrapSend
    \/ LoopReceive

SpecConfig == InitConfig /\ [][NextConfig]_vars

\* ------------------------------------------------------------------ claims

\* The step is a loop iteration that applied the PhaseChange at the head of cmdCh.
PhaseChangeApplied ==
    /\ cmdCh # << >>
    /\ Head(cmdCh).Type = "PhaseChange"
    /\ cmdCh' = Tail(cmdCh)

EventsOf(events, type) == {i \in 1..Len(events) : events[i].Type = type}

AliveSet(g) == {p \in DOMAIN g.Players : g.Players[p].Alive}

\* C1: a doctor save of X accepted in the Night of round k keeps X out of the
\* doctor slot for the whole Night of round k+1: the slot never holds the
\* target the previous Night ended with.
C1_NoConsecutiveSave ==
    (state.Phase = PhaseNight /\ savedLastNight # << >> /\ savedLastNight[1] # NoPlayer)
        => state.DoctorTarget # savedLastNight[1]

\* C2: the winner is set exactly when the phase is Ended.
C2_WinnerIffEnded ==
    (state.Winner # WinnerNone) <=> (state.Phase = PhaseEnded)

\* C3: once the phase is Ended it is Ended after every later command.
C3_EndedIsTerminal ==
    [][state.Phase = PhaseEnded => state'.Phase = PhaseEnded]_vars

\* C4: in Waiting and Ended no phase timer is armed; in Night, Day and Voting
\* the timer manager holds exactly one phase timer.
C4_TimerMatchesPhase ==
    /\ state.Phase \in {PhaseWaiting, PhaseEnded}
            => (armed = {} /\ tm.phaseTimer = NoTimer)
    /\ state.Phase \in {PhaseNight, PhaseDay, PhaseVoting}
            => (tm.phaseTimer # NoTimer /\ Cardinality(armed) <= 1)

LivenessChanged ==
    {p \in DOMAIN state.Players : state'.Players[p].Alive # state.Players[p].Alive}

VotesFor(g, t) == Cardinality({v \in DOMAIN g.Votes : g.Votes[v] = t})

\* The targets whose vote count is strictly above every other target's.
StrictlyHighest(g) ==
    {t \in DOMAIN g.Players :
        /\ VotesFor(g, t) > 0
        /\ \A u \in DOMAIN g.Players \ {t} : VotesFor(g, u) < VotesFor(g, t)}

WinChecked ==
    \/ PhaseChangeApplied
    \/ /\ state' # state
       /\ cmdCh' = cmdCh
       /\ out' # << >>
       /\ out'[1].Type = "player_eliminated"

MafiaAlive(g) == Cardinality({p \in AliveSet(g) : g.Players[p].Role = RoleMafia})

VillageAlive(g) == Cardinality({p \in AliveSet(g) : g.Players[p].Role # RoleMafia})

\* C8: the win check sets winner = Village and phase = Ended when no mafia is
\* alive, winner = Mafia and phase = Ended when alive mafia > 0 and >= alive
\* village, and otherwise reports no end and leaves winner and phase as the
\* command set them; game_ended is published exactly in the first two cases.
C8_IsGameOver ==
    [][WinChecked =>
        LET m == MafiaAlive(state')
            v == VillageAlive(state')
        IN  /\ m = 0 => (state'.Winner = WinnerVillage /\ state'.Phase = PhaseEnded)
            /\ (m > 0 /\ m >= v) => (state'.Winner = WinnerMafia /\ state'.Phase = PhaseEnded)
            /\ (m > 0 /\ m < v) =>
                    /\ state'.Winner = state.Winner
                    /\ state'.Phase = IF PhaseChangeApplied THEN Head(cmdCh).NewPhase
                                      ELSE state.Phase
            /\ (EventsOf(out', "game_ended") # {}) <=> (m = 0 \/ m >= v)
            /\ \A i \in EventsOf(out', "game_ended") : out'[i] = GameEnded(state'.Winner)
      ]_vars

\* The win check has just ended a game for the mafia at exact parity.
C8_Witness ==
    /\ state.Phase = PhaseEnded
    /\ state.Winner = WinnerMafia
    /\ MafiaAlive(state) = VillageAlive(state)
    /\ out # << >>
    /\ out[Len(out)] = GameEnded(WinnerMafia)

AllIds == 0..(MaxPlayers + 1)

\* C9: a vote is recorded only for a voter and a target that are present and
\* alive when the command is applied, and a NightAction is accepted only from
\* an actor and for a target that are present and alive at that moment.
C9_OnlyTheLivingAct ==
    /\ [](\A r \in NightRoles, a \in AllIds, t \in AllIds :
            ~NightActionApply(NightActionCommand(r, a, t), state).err
                => (IsAlive(state, a) /\ IsAlive(state, t)))
    /\ [][/\ \A v \in DOMAIN state'.Votes :
                (v \notin DOMAIN state.Votes \/ state'.Votes[v] # state.Votes[v])
                    => (IsAlive(state, v) /\ IsAlive(state, state'.Votes[v]))
          /\ \A t \in {state'.MafiaTarget, state'.DoctorTarget, state'.SheriffTarget} \ {NoPlayer} :
                t \notin {state.MafiaTarget, state.DoctorTarget, state.SheriffTarget}
                    => IsAlive(state, t)
         ]_vars

\* A vote stands while a player is dead, and a night slot is set while a player is dead.
C9_Witness ==
    /\ state.Votes # << >>
    /\ AliveSet(state) # DOMAIN state.Players
    /\ ~lastErr

\* C10: a recorded vote keeps its voter and target until a PhaseChange is
\* applied, and every further Vote command of that voter is rejected.
C10_OneVotePerVoter ==
    /\ [](\A v \in DOMAIN state.Votes, t \in AllIds : VoteApply(VoteCommand(v, t), state).err)
    /\ [][\A v \in DOMAIN state.Votes :
            ~PhaseChangeApplied => (v \in DOMAIN state'.Votes /\ state'.Votes[v] = state.Votes[v])
         ]_vars

\* A command was rejected in Voting while a vote stands.
C10_Witness ==
    /\ state.Phase = PhaseVoting
    /\ state.Votes # << >>
    /\ lastErr

NightSlot(g, role) ==
    CASE role = RoleMafia -> g.MafiaTarget
      [] role = RoleDoctor -> g.DoctorTarget
      [] role = RoleSheriff -> g.SheriffTarget

ActingRoles == {RoleMafia, RoleDoctor, RoleSheriff}

\* C11: while a night slot is set, every NightAction for that role, from any
\* actor and for any target, is rejected, and the slot keeps its value until
\* a PhaseChange is applied.
C11_FirstNightActionWins ==
    /\ [](\A r \in ActingRoles :
            NightSlot(state, r) # NoPlayer =>
                \A a \in AllIds, t \in AllIds :
                    NightActionApply(NightActionCommand(r, a, t), state).err)
    /\ [][\A r \in ActingRoles :
            (NightSlot(state, r) # NoPlayer /\ ~PhaseChangeApplied)
                => NightSlot(state', r) = NightSlot(state, r)
         ]_vars

\* All three slots are set in a Night and a further command was rejected.
C11_Witness ==
    /\ state.Phase = PhaseNight
    /\ \A r \in ActingRoles : NightSlot(state, r) # NoPlayer
    /\ lastErr

\* C12: the bullet flag never goes back to false; it becomes true only in a
\* step that is an accepted sheriff NightAction, every accepted sheriff
\* NightAction sets it, and while it is true every sheriff NightAction is rejected.
C12_OneBullet ==
    /\ [](\A a \in AllIds, t \in AllIds :
            LET res == NightActionApply(NightActionCommand(RoleSheriff, a, t), state)
            IN  /\ state.SheriffUsedBullet => res.err
                /\ ~res.err => res.g.SheriffUsedBullet)
    /\ [][/\ state.SheriffUsedBullet => state'.SheriffUsedBullet
          /\ state'.SheriffUsedBullet # state.SheriffUsedBullet =>
                \E a \in AllIds, t \in AllIds :
                    LET res == NightActionApply(NightActionCommand(RoleSheriff, a, t), state)
                    IN  ~res.err /\ state' = res.g
         ]_vars

\* The bullet was used in round 1 and the Night of round 2 has an empty sheriff slot.
C12_Witness ==
    /\ state.SheriffUsedBullet
    /\ state.Phase = PhaseNight
    /\ state.Round = 2
    /\ state.SheriffTarget = NoPlayer

\* C13: a mafia or sheriff NightAction with actor = target is rejected and
\* changes nothing; a doctor NightAction with actor = target is accepted and
\* fills the doctor slot whenever the doctor is alive, the phase is Night, the
\* slot is empty and the doctor is not the previous doctor target.
C13_SelfTarget ==
    /\ \A a \in AllIds, r \in {RoleMafia, RoleSheriff} :
            LET res == NightActionApply(NightActionCommand(r, a, a), state)
            IN  res.err /\ res.g = state
    /\ \A a \in DOMAIN state.Players :
            ( /\ state.Players[a].Role = RoleDoctor
              /\ state.Players[a].Alive
              /\ state.Phase = PhaseNight
              /\ state.DoctorTarget = NoPlayer
              /\ state.PreviousDoctorTarget # a )
            => LET res == NightActionApply(NightActionCommand(RoleDoctor, a, a), state)
               IN  ~res.err /\ res.g = [state EXCEPT !.DoctorTarget = a]

\* The doctor has saved themselves.
C13_Witness ==
    /\ state.Phase = PhaseNight
    /\ \E a \in DOMAIN state.Players :
            state.Players[a].Role = RoleDoctor /\ state.DoctorTarget = a

\* The step is a loop iteration that accepted a StartGame (the only command
\* whose first event is game_started).
StartGameAccepted ==
    /\ state' # state
    /\ out' # << >>
    /\ out'[1].Type = "game_started"

\* C14: the round is 1 after an accepted StartGame, one more after an applied
\* PhaseChange into Night, and unchanged by every other step.
C14_RoundCounter ==
    [][IF PhaseChangeApplied
       THEN state'.Round = IF Head(cmdCh).NewPhase = PhaseNight THEN state.Round + 1
                           ELSE state.Round
       ELSE IF StartGameAccepted THEN state'.Round = 1
       ELSE state'.Round = state.Round
      ]_vars

\* A PhaseChange into Night has just been applied and the round is 2.
C14_Witness ==
    /\ state.Phase = PhaseNight
    /\ state.Round = 2
    /\ out # << >>
    /\ out[1] = PhaseChanged(2, PhaseVoting, PhaseNight)

RolesOf(g) == [p \in DOMAIN g.Players |-> g.Players[p].Role]

\* C15: StartGame is rejected in every phase but Waiting; the step that
\* accepts it starts in Waiting with no role assigned and ends in Night with
\* every player holding a role; the phase never returns to Waiting, and no
\* other step changes a player's role.
C15_StartOnce ==
    /\ [](state.Phase # PhaseWaiting =>
            StartGameApply(StartGameCommand, state,
                           [shuffle |-> 0, ids |-> << >>, roles |-> << >>]).err)
    /\ [](state.Phase = PhaseWaiting =>
            \A p \in DOMAIN state.Players : state.Players[p].Role = RoleUnknown)
    /\ [][/\ state.Phase # PhaseWaiting => state'.Phase # PhaseWaiting
          /\ IF StartGameAccepted
             THEN /\ state.Phase = PhaseWaiting
                  /\ state'.Phase = PhaseNight
                  /\ DOMAIN state'.Players = DOMAIN state.Players
                  /\ \A p \in DOMAIN state'.Players : state'.Players[p].Role # RoleUnknown
             ELSE \A p \in DOMAIN state.Players :
                    /\ p \in DOMAIN state'.Players
                    /\ state'.Players[p].Role = state.Players[p].Role
         ]_vars

\* The game has started, every role is assigned, and a later command was rejected.
C15_Witness ==
    /\ state.Phase = PhaseNight
    /\ state.Players # << >>
    /\ \A p \in DOMAIN state.Players : state.Players[p].Role # RoleUnknown
    /\ lastErr

\* The step is a loop iteration on a command of the given type at the head of cmdCh.
Received(type) ==
    /\ cmdCh # << >>
    /\ Head(cmdCh).Type = type
    /\ cmdCh' = Tail(cmdCh)

CountRole(g, role) == Cardinality({p \in DOMAIN g.Players : g.Players[p].Role = role})

\* C16: a StartGame received in Waiting with min <= N <= max leaves N \div 3
\* mafia, one doctor, one sheriff, N - N \div 3 - 2 villagers and no player
\* without a role.
C16_RoleCounts ==
    [][LET n == GetPlayerCount(state)
       IN  ( /\ Received("StartGame")
             /\ state.Phase = PhaseWaiting
             /\ Head(cmdCh).MinPlayers <= n
             /\ n <= Head(cmdCh).MaxPlayers )
           => /\ CountRole(state', RoleMafia) = n \div 3
              /\ CountRole(state', RoleDoctor) = 1
              /\ CountRole(state', RoleSheriff) = 1
              /\ CountRole(state', RoleVillager) = n - (n \div 3) - 2
              /\ CountRole(state', RoleUnknown) = 0
              /\ GetPlayerCount(state') = n
      ]_vars

\* What an AddPlayer step does besides deciding: an accepted one adds exactly
\* one player under a new id and keeps the count within the command's
\* maximum, a rejected one changes nothing.
AddPlayerOutcome ==
    LET n == GetPlayerCount(state)
    IN  IF lastErr'
        THEN state' = state
        ELSE /\ Cardinality(DOMAIN state'.Players) = n + 1
             /\ n + 1 <= Head(cmdCh).MaxPlayers
             /\ \A p \in DOMAIN state.Players :
                    p \in DOMAIN state'.Players /\ state'.Players[p] = state.Players[p]

\* The set of players changes only by an AddPlayer received in Waiting.
PlayersOnlyAddedInWaiting ==
    DOMAIN state'.Players # DOMAIN state.Players
        => (Received("AddPlayer") /\ state.Phase = PhaseWaiting)

\* C17 as stated: an AddPlayer is accepted iff the phase is Waiting and the
\* player count is below the command's maximum (the generated id is always new).
C17_AddPlayerIff ==
    [][/\ Received("AddPlayer") =>
            /\ ~lastErr' <=> ( /\ state.Phase = PhaseWaiting
                               /\ GetPlayerCount(state) < Head(cmdCh).MaxPlayers )
            /\ AddPlayerOutcome
       /\ PlayersOnlyAddedInWaiting
      ]_vars

\* C17: an AddPlayer is accepted iff the phase is Waiting, the player count is
\* below the command's maximum and a name is left in the pool; an accepted one
\* adds one player under a new id within the maximum, a rejected one changes
\* nothing, and no player is added outside Waiting.
C17_AddPlayerIffNameLeft ==
    [][/\ Received("AddPlayer") =>
            /\ ~lastErr' <=> ( /\ state.Phase = PhaseWaiting
                               /\ GetPlayerCount(state) < Head(cmdCh).MaxPlayers
                               /\ GetPlayerCount(state) < NamePoolSize )
            /\ AddPlayerOutcome
       /\ PlayersOnlyAddedInWaiting
      ]_vars

\* An AddPlayer was rejected in Waiting with room left under the maximum:
\* every name of the pool is taken.
C17_Witness ==
    /\ state.Phase = PhaseWaiting
    /\ lastErr
    /\ GetPlayerCount(state) = NamePoolSize
    /\ handler # << >>
    /\ handler[Len(handler)].MaxPlayers > GetPlayerCount(state)

C19_DeadStaysDead ==
    /\ [](\A id \in AllIds :
            ~IsAlive(state, id) =>
                /\ EliminatePlayer(state, id).g = state
                /\ EliminatePlayer(state, id).player = NoPlayer
                /\ EliminatePlayerApply(EliminatePlayerCommand(id, "voted_out"), state).err
                /\ EliminatePlayerApply(EliminatePlayerCommand(id, "voted_out"), state).g = state)
    /\ [][\A p \in DOMAIN state.Players :
            ~state.Players[p].Alive =>
                (p \in DOMAIN state'.Players /\ ~state'.Players[p].Alive)
         ]_vars

\* A player is dead and a later command was rejected during a running game.
C19_Witness ==
    /\ AliveSet(state) # DOMAIN state.Players
    /\ state.Phase \in {PhaseNight, PhaseDay, PhaseVoting}
    /\ state.Round = 2
    /\ lastErr

\* The commands the loop can be handed.
AllCommands ==
    {AddPlayerCommand, StartGameCommand}
    \cup {VoteCommand(v, t) : v \in Actors, t \in Targets}
    \cup {ChatCommand(c) : c \in ChatSenders}
    \cup {MafiaChatCommand(c) : c \in ChatSenders}
    \cup {NightActionCommand(r, a, t) : r \in NightRoles, a \in Actors, t \in Targets}
    \cup {PhaseChangeCommand(ph) : ph \in {PhaseNight, PhaseDay, PhaseVoting}}
    \cup {EliminatePlayerCommand(p, "voted_out") : p \in Targets}

\* The step is an iteration of the loop.
LoopStep ==
    /\ UNCHANGED <<sending, handler, mainPc>>
    /\ cmdCh' = cmdCh \/ (cmdCh # << >> /\ cmdCh' = Tail(cmdCh))

\* C20: a command whose Apply returns an error gives back the state it was
\* given and no effect, and the loop iteration that rejects a command leaves
\* the game state and the phase timer as they were and publishes nothing.
C20_RejectedChangesNothing ==
    /\ [](\A cmd \in AllCommands :
            LET r == Apply(cmd, state, [shuffle |-> 0, ids |-> << >>, roles |-> << >>])
            IN  r.err => (r.g = state /\ r.effects = << >>))
    /\ [][(LoopStep /\ lastErr') =>
            /\ state' = state
            /\ out' = << >>
            /\ tm' = tm
            /\ armed' = armed
         ]_vars

\* A command was rejected after the phase timer had fired: nothing is
\* published and the timer is not re-armed.
C20_Witness ==
    /\ lastErr
    /\ out = << >>
    /\ producer = [faulty |-> FALSE, failed |-> {}]
    /\ handled = << >>
    /\ state.Phase \in {PhaseNight, PhaseDay, PhaseVoting}
    /\ tm.phaseTimer # NoTimer
    /\ armed = {}
    /\ cmdCh # << >>

\* The commands whose effect list starts with an event of the given type.
CommandsPublishing(type) ==
    {cmd \in AllCommands :
        cmd.Type = CASE type = "game_started" -> "StartGame"
                     [] type = "phase_changed" -> "PhaseChange"
                     [] type = "all_chat" -> "Chat"
                     [] type = "mafia_chat" -> "MafiaChat"
                     [] OTHER -> "EliminatePlayer"}

\* C21: when the Publish of one effect of an accepted command fails, the
\* loop iteration has still executed the command's whole effect list in list
\* order, keeps the state the command produced, and has cancelled and
\* re-armed the phase timer as phase 3 does for StartGame and PhaseChange.
C21_EffectFailureDoesNotAbort ==
    [][(LoopStep /\ producer'.failed # {}) =>
        \E cmd \in CommandsPublishing(out'[1].Type) :
            \E pick \in (IF cmd.Type = "StartGame" THEN Picks(state)
                         ELSE {[shuffle |-> 0, ids |-> << >>, roles |-> << >>]}) :
                LET r == Apply(cmd, state, pick)
                    t == RunTimers(cmd, r.g, [tm |-> tm, armed |-> armed, cancelled |-> cancelled])
                IN  /\ ~r.err
                    /\ out' = r.effects
                    /\ producer'.failed \subseteq 1..Len(r.effects)
                    /\ state' = r.g
                    /\ tm' = t.tm
                    /\ armed' = t.armed
                    /\ cancelled' = t.cancelled
     ]_vars

\* The Publish of the phase_changed event of a night resolution failed; the
\* player_eliminated event after it was executed, the victim is dead and the
\* timer of the new phase is armed.
C21_Witness ==
    /\ producer.failed = {1}
    /\ Len(out) >= 2
    /\ out[1].Type = "phase_changed"
    /\ out[2].Type = "player_eliminated"
    /\ ~state.Players[out[2].PlayerID].Alive
    /\ state.Phase = PhaseDay
    /\ tm.phaseTimer \in armed
    /\ tm.phaseTimer.id = PhaseDay

\* C22: the command channel is first-in first-out (a step adds one command at
\* its end or removes the one at its head), the game state and the published
\* events change only in a step that removes the head of the channel, and
\* that step applies exactly that command and publishes exactly its effect
\* list, in list order: commands are applied one at a time in the order of
\* their insertion and no two commands' events interleave.
C22_CommandOrder ==
    [][ /\ cmdCh' # cmdCh =>
            \/ /\ Len(cmdCh') = Len(cmdCh) + 1
               /\ SubSeq(cmdCh', 1, Len(cmdCh)) = cmdCh
            \/ /\ cmdCh # << >>
               /\ cmdCh' = Tail(cmdCh)
        /\ (state' # state \/ out' # out) =>
            /\ cmdCh # << >>
            /\ cmdCh' = Tail(cmdCh)
            /\ \E pick \in (IF Head(cmdCh).Type = "StartGame" THEN Picks(state)
                            ELSE {[shuffle |-> 0, ids |-> << >>, roles |-> << >>]}) :
                    LET r == Apply(Head(cmdCh), state, pick)
                    IN  IF r.err THEN state' = state /\ out' = << >>
                        ELSE state' = r.g /\ out' = r.effects
     ]_vars

\* The loop has applied a PhaseChange that resolved a phase with a victim
\* while two different commands sent after it wait in the channel.
C22_Witness ==
    /\ Len(out) >= 2
    /\ out[1].Type = "phase_changed"
    /\ out[2].Type = "player_eliminated"
    /\ Len(cmdCh) = 2
    /\ cmdCh[1] # cmdCh[2]

\* C23: a loop iteration that turns a player from alive to dead hands the
\* producer a player_eliminated event for that player, one that applies a
\* PhaseChange hands it a phase_changed event, and one that brings the phase
\* to Ended hands it a game_ended event carrying the winner, whether or not
\* a Publish fails.
C23_ConsequencesEmitted ==
    [][LoopStep =>
        /\ \A p \in (AliveSet(state) \ AliveSet(state')) :
                \E i \in EventsOf(out', "player_eliminated") : out'[i].PlayerID = p
        /\ PhaseChangeApplied =>
                \E i \in EventsOf(out', "phase_changed") :
                    /\ out'[i].OldPhase = state.Phase
                    /\ out'[i].NewPhase = Head(cmdCh).NewPhase
        /\ (state.Phase # PhaseEnded /\ state'.Phase = PhaseEnded) =>
                \E i \in EventsOf(out', "game_ended") : out'[i] = GameEnded(state'.Winner)
     ]_vars

\* A vote removed the last mafia player: the PhaseChange out of Voting
\* published phase_changed, player_eliminated and game_ended for the village.
C23_Witness ==
    /\ Len(out) = 3
    /\ out[1].Type = "phase_changed"
    /\ out[2].Type = "player_eliminated"
    /\ out[2].Reason = "voted_out"
    /\ ~state.Players[out[2].PlayerID].Alive
    /\ out[3] = GameEnded(WinnerVillage)
    /\ state.Phase = PhaseEnded
    /\ state.Winner = WinnerVillage

\* The victim the resolution of the phase of g names (NoPlayer: none).
ResolutionVictim(g) ==
    CASE g.Phase = PhaseNight -> ResolveNightActions(g)
      [] g.Phase = PhaseVoting -> ResolveVotingPhase(g)
      [] OTHER -> NoPlayer

\* C24: the events of an applied PhaseChange are phase_changed, then
\* player_eliminated exactly if the resolution named a victim, then
\* game_ended exactly if the win check ended the game, and nothing else; a
\* night kill that leaves alive mafia >= alive village publishes
\* phase_changed, player_eliminated{killed_by_mafia}, game_ended{mafia} and
\* leaves phase = Ended and winner = Mafia.
C24_PhaseChangeEffectOrder ==
    [][PhaseChangeApplied =>
        LET victim == ResolutionVictim(state)
            ended == state'.Phase = PhaseEnded
            n == 1 + (IF victim # NoPlayer THEN 1 ELSE 0) + (IF ended THEN 1 ELSE 0)
        IN  /\ Len(out') = n
            /\ out'[1].Type = "phase_changed"
            /\ victim # NoPlayer => out'[2].Type = "player_eliminated"
            /\ ended => out'[n].Type = "game_ended"
            /\ ( /\ state.Phase = PhaseNight
                 /\ victim \in AliveSet(state)
                 /\ victim \notin AliveSet(state')
                 /\ MafiaAlive(state') >= VillageAlive(state') ) =>
                    /\ out' = <<PhaseChanged(state'.Round, PhaseNight, Head(cmdCh).NewPhase),
                                PlayerEliminated(victim, "killed_by_mafia"),
                                GameEnded(WinnerMafia)>>
                    /\ state'.Phase = PhaseEnded
                    /\ state'.Winner = WinnerMafia
     ]_vars

\* A night kill has just brought the mafia to parity: three events in the
\* order phase_changed, player_eliminated, game_ended.
C24_Witness ==
    /\ Len(out) = 3
    /\ out[1].Type = "phase_changed"
    /\ out[1].OldPhase = PhaseNight
    /\ out[2].Type = "player_eliminated"
    /\ out[2].Reason = "killed_by_mafia"
    /\ out[3] = GameEnded(WinnerMafia)
    /\ state.Phase = PhaseEnded
    /\ state.Winner = WinnerMafia
    /\ MafiaAlive(state) >= VillageAlive(state)

\* C25: an accepted StartGame with N players publishes exactly N+2 events:
\* game_started listing each of the N player ids once, then N role_assigned
\* events, one per player and carrying the role the player now has, then
\* phase_changed from waiting to night with round 1.
C25_StartGameEffects ==
    [][StartGameAccepted =>
        LET ids == DOMAIN state'.Players
            N == Cardinality(ids)
        IN  /\ ids = DOMAIN state.Players
            /\ Len(out') = N + 2
            /\ out'[1].Type = "game_started"
            /\ Len(out'[1].Players) = N
            /\ {out'[1].Players[i] : i \in 1..N} = ids
            /\ \A i \in 2..(N + 1) :
                    /\ out'[i].Type = "role_assigned"
                    /\ out'[i].PlayerID \in ids
                    /\ out'[i].Role = state'.Players[out'[i].PlayerID].Role
            /\ {out'[i].PlayerID : i \in 2..(N + 1)} = ids
            /\ out'[N + 2] = PhaseChanged(1, PhaseWaiting, PhaseNight)
     ]_vars

\* A game of seven players has just been started: nine events, the second
\* one telling a player a role that is no longer unknown.
C25_Witness ==
    /\ Cardinality(DOMAIN state.Players) = 7
    /\ state.Phase = PhaseNight
    /\ Len(out) = 9
    /\ out[1].Type = "game_started"
    /\ out[2].Type = "role_assigned"
    /\ out[2].Role # RoleUnknown
    /\ out[9].Type = "phase_changed"

\* C26: AddPlayer, Vote and NightAction return no effect in any state,
\* accepted or not; a loop iteration that adds a player, registers a vote or
\* fills a night slot publishes nothing, and what the loop publishes is
\* always one of the seven outbound events, none of which carries a vote or
\* a night target that is still pending.
C26_SilentCommands ==
    /\ [](\A cmd \in {c \in AllCommands : c.Type \in {"AddPlayer", "Vote", "NightAction"}} :
            Apply(cmd, state, [shuffle |-> 0, ids |-> << >>, roles |-> << >>]).effects = << >>)
    /\ [](\A i \in 1..Len(out) :
            out[i].Type \in {"game_started", "role_assigned", "phase_changed",
                             "player_eliminated", "game_ended", "all_chat", "mafia_chat"})
    /\ [][(LoopStep /\ ~PhaseChangeApplied /\ state'.Phase = state.Phase /\
           ( \/ DOMAIN state'.Players # DOMAIN state.Players
             \/ state'.Votes # state.Votes
             \/ state'.MafiaTarget # state.MafiaTarget
             \/ state'.DoctorTarget # state.DoctorTarget
             \/ state'.SheriffTarget # state.SheriffTarget )) =>
            out' = << >>
         ]_vars

\* A vote has just been registered and nothing was published for it.
C26_Witness ==
    /\ state.Phase = PhaseVoting
    /\ DOMAIN state.Votes # {}
    /\ ~lastErr
    /\ out = << >>

\* C27: in every state, only a Chat command whose sender exists and is alive
\* returns an all_chat event, only a MafiaChat command applied in Night whose
\* sender exists, is alive and is Mafia returns a mafia_chat event, and
\* neither command changes the game state; a loop iteration publishes a chat
\* event only for such a sender and leaves the state as it was.
C27_ChatEvents ==
    /\ [](\A cmd \in AllCommands :
            \A pick \in (IF cmd.Type = "StartGame" THEN Picks(state)
                         ELSE {[shuffle |-> 0, ids |-> << >>, roles |-> << >>]}) :
                LET r == Apply(cmd, state, pick)
                IN  /\ cmd.Type \in {"Chat", "MafiaChat"} => r.g = state
                    /\ EventsOf(r.effects, "all_chat") # {} =>
                            /\ cmd.Type = "Chat"
                            /\ r.effects = <<AllChatMessage(cmd.SenderID)>>
                            /\ cmd.SenderID \in AliveSet(state)
                    /\ EventsOf(r.effects, "mafia_chat") # {} =>
                            /\ cmd.Type = "MafiaChat"
                            /\ r.effects = <<MafiaChatMessage(cmd.SenderID)>>
                            /\ cmd.SenderID \in AliveSet(state)
                            /\ state.Players[cmd.SenderID].Role = RoleMafia
                            /\ state.Phase = PhaseNight)
    /\ [][LoopStep =>
            /\ \A i \in EventsOf(out', "all_chat") :
                    /\ out'[i].SenderID \in AliveSet(state)
                    /\ state' = state
            /\ \A i \in EventsOf(out', "mafia_chat") :
                    /\ out'[i].SenderID \in AliveSet(state)
                    /\ state.Players[out'[i].SenderID].Role = RoleMafia
                    /\ state.Phase = PhaseNight
                    /\ state' = state
         ]_vars

\* A living mafia player's MafiaChat has just been published in Night.
C27_Witness ==
    /\ Len(out) = 1
    /\ out[1].Type = "mafia_chat"
    /\ state.Phase = PhaseNight
    /\ out[1].SenderID \in AliveSet(state)
    /\ state.Players[out[1].SenderID].Role = RoleMafia

\* The step is the return of a HandleEvent call.
HandleEventReturns ==
    /\ handled # << >>
    /\ handled' # handled
    /\ handled'[1].ret # "pending"

\* The command the inbound event ev stands for.
CommandOf(ev) ==
    CASE ev.Type = "vote_submitted" ->
            [Type |-> "Vote", VoterID |-> ev.VoterID, TargetID |-> ev.TargetID]
      [] ev.Type = "all_chat" -> [Type |-> "Chat", SenderID |-> ev.SenderID]
      [] ev.Type = "mafia_chat" -> [Type |-> "MafiaChat", SenderID |-> ev.SenderID]
      [] ev.Type = "night_action" ->
            [Type |-> "NightAction", Role |-> ev.Role, ActorID |-> ev.ActorID,
             TargetID |-> ev.TargetID]

CommandEvents == {"vote_submitted", "all_chat", "mafia_chat", "night_action"}

\* C28 as stated: a HandleEvent call has, when it returns, enqueued exactly
\* the command of its event and returned nil for vote_submitted, all_chat,
\* mafia_chat and night_action, enqueued nothing and returned nil for
\* player_thoughts, and enqueued nothing and returned an error for any other
\* value.
C28_OneCommandPerEvent ==
    [][HandleEventReturns =>
        LET ev == handled'[1].ev[1]
            ret == handled'[1].ret
        IN  IF ev.Type \in CommandEvents
            THEN cmdCh' = Append(cmdCh, CommandOf(ev)) /\ ret = "nil"
            ELSE IF ev.Type = "player_thoughts"
            THEN cmdCh' = cmdCh /\ ret = "nil"
            ELSE cmdCh' = cmdCh /\ ret # "nil"
     ]_vars

\* C28, amended: as stated, unless the context of the call is cancelled
\* before the command is sent, in which case the call may enqueue nothing
\* and return the context's error.
C28_OneCommandPerEventUnlessCancelled ==
    [][HandleEventReturns =>
        LET ev == handled'[1].ev[1]
            ret == handled'[1].ret
        IN  IF ev.Type \in CommandEvents
            THEN \/ cmdCh' = Append(cmdCh, CommandOf(ev)) /\ ret = "nil"
                 \/ inCtxDone /\ cmdCh' = cmdCh /\ ret = "context canceled"
            ELSE IF ev.Type = "player_thoughts"
            THEN cmdCh' = cmdCh /\ ret = "nil"
            ELSE cmdCh' = cmdCh /\ ret = "unknown event type"
     ]_vars

\* HandleEvent has returned nil for a vote_submitted event and its Vote
\* command, ids unchanged, is the one sent last.
C28_Witness ==
    /\ handled = <<[ev |-> <<VoteSubmitted(1, 3)>>, ret |-> "nil"]>>
    /\ cmdCh # << >>
    /\ cmdCh[Len(cmdCh)] = VoteCommand(1, 3)

\* The timers whose callbacks are in their select.
Callbacks == {sending[i] : i \in 1..Len(sending)}

\* C29: a timer that CancelPhaseTimer or a re-schedule stopped while it was
\* still armed never fires: it is never armed again, its callback never
\* runs, and every PhaseChange command that enters the channel is sent by
\* the callback of a timer that was not cancelled.
C29_CancelledTimerNeverSends ==
    /\ [](cancelled \cap (armed \cup Callbacks) = {})
    /\ [][(Len(cmdCh') > Len(cmdCh) /\ cmdCh'[Len(cmdCh')].Type = "PhaseChange") =>
            \E i \in 1..Len(sending) :
                /\ sending[i] \notin cancelled
                /\ cmdCh' = Append(cmdCh, PhaseChangeCommand(sending[i].next))
                /\ sending' = RemoveAt(sending, i)
         ]_vars

\* Two timers were stopped while they were armed and the manager holds none:
\* no callback is running and the channel holds no command.
C29_Witness ==
    /\ Cardinality(cancelled) = 2
    /\ tm.phaseTimer = NoTimer
    /\ armed = {}
    /\ sending = << >>
    /\ cmdCh = << >>

Succeeded(r) == r.err = "nil"

\* No call of Next is in progress.
NoCallInProgress == ng.mu = 0 /\ \A c \in DOMAIN ng.pc : ng.pc[c] = "call"

\* C30: for a generator over K names and concurrent callers of Next, in every
\* interleaving the i-th successful call returns pool position i and its
\* name, so no position is returned twice; every call that does not succeed
\* returns the no-more-names error; and whenever no call is in progress,
\* min(calls, K) calls have succeeded and Remaining() = K - successes >= 0.
C30_NameGenerator ==
    LET K == Len(ng.names)
        calls == ng.returned
        successes == SelectSeq(calls, Succeeded)
    IN  /\ \A i \in 1..Len(successes) :
                /\ i <= K
                /\ successes[i].pos = i
                /\ successes[i].name = ng.names[i]
        /\ \A i \in 1..Len(calls) :
                ~Succeeded(calls[i]) => calls[i].err = ErrNoMoreNames /\ calls[i].name = ""
        /\ NoCallInProgress =>
                /\ Len(successes) = (IF Len(calls) < K THEN Len(calls) ELSE K)
                /\ Remaining(ng) = K - Len(successes)
                /\ Remaining(ng) >= 0

\* Three goroutines have made six calls on a pool of four names: the four
\* names were handed out and the last two calls failed.
C30_Witness ==
    /\ NoCallInProgress
    /\ Len(ng.names) = 4
    /\ Len(ng.returned) = 6
    /\ Succeeded(ng.returned[4])
    /\ ng.returned[5].err = ErrNoMoreNames
    /\ ng.returned[6].err = ErrNoMoreNames
    /\ Remaining(ng) = 0

\* The Vote and NightAction commands over the explored ids and roles.
RedeliverableCommands ==
    {VoteCommand(v, t) : v \in Actors, t \in Targets}
        \cup {NightActionCommand(r[1], r[2], t) : r \in NightRoles \X Actors, t \in Targets}

\* The step is a loop iteration on a Vote or NightAction command that the
\* state already holds: the voter's recorded vote is the command's target,
\* or the slot of the actor's own role holds the command's target.
Redelivered ==
    /\ running
    /\ cmdCh # << >>
    /\ cmdCh' = Tail(cmdCh)
    /\ LET c == Head(cmdCh)
       IN  \/ /\ c.Type = "Vote"
              /\ state.Phase = PhaseVoting
              /\ c.VoterID \in DOMAIN state.Votes
              /\ state.Votes[c.VoterID] = c.TargetID
           \/ /\ c.Type = "NightAction"
              /\ state.Phase = PhaseNight
              /\ IsAlive(state, c.ActorID)
              /\ state.Players[c.ActorID].Role = c.Role
              /\ HasNightAction(c.Role)
              /\ NightSlot(state, c.Role) = c.TargetID

\* C31: a Vote or NightAction command that is accepted is rejected when it is
\* applied again to the state the first application left, with that state
\* unchanged and no effect; and the loop iteration on a re-delivered Vote or
\* NightAction returns an error, changes nothing of the game state and
\* publishes nothing.
C31_RedeliveryIdempotent ==
    /\ [](\A c \in RedeliverableCommands :
            LET pick == [shuffle |-> 0, ids |-> << >>, roles |-> << >>]
                first == Apply(c, state, pick)
                second == Apply(c, first.g, pick)
            IN  ~first.err =>
                    /\ second.err
                    /\ second.g = first.g
                    /\ second.effects = << >>)
    /\ [][Redelivered => (lastErr' /\ state' = state /\ out' = << >>)]_vars

\* A vote_submitted event was delivered twice: the vote of player 1 for
\* player 3 stands, the second Vote command was rejected and a third waits.
C31_Witness ==
    /\ state.Phase = PhaseVoting
    /\ state.Votes = (1 :> 3)
    /\ lastErr
    /\ cmdCh # << >>
    /\ Head(cmdCh) = VoteCommand(1, 3)

\* C32: right after the PhaseChange that enters the Night of a round T >= 2
\* is applied, PreviousDoctorTarget is the value DoctorTarget held when the
\* Night of round T-1 ended (NoPlayer when no save was accepted in it).
C32_PreviousDoctorTarget ==
    [][(PhaseChangeApplied /\ savedLastNight # << >>
            /\ state'.Phase = PhaseNight /\ state'.Round >= 2)
        => state'.PreviousDoctorTarget = savedLastNight'[1]
     ]_vars

\* The phase cycle: next(Night) = Day, next(Day) = Voting, next(Voting) = Night.
CycleNext ==
    (PhaseNight :> PhaseDay) @@ (PhaseDay :> PhaseVoting) @@ (PhaseVoting :> PhaseNight)

\* C33: in the engine runs (bootstrap, inbound handlers and the phase timer)
\* every PhaseChange the loop applies finds the phase in Night, Day or Voting
\* and carries the next phase of the cycle, which the phase then is unless
\* the game ended; the phase never goes back to Waiting; and every step that
\* changes the phase goes from Waiting to Night, to the next phase of the
\* cycle, or to Ended.
C33_PhaseCycle ==
    /\ [][PhaseChangeApplied =>
            /\ state.Phase \in DOMAIN CycleNext
            /\ Head(cmdCh).NewPhase = CycleNext[state.Phase]
            /\ ~lastErr'
            /\ state'.Phase \in {CycleNext[state.Phase], PhaseEnded}
            /\ out'[1] = PhaseChanged(state'.Round, state.Phase, CycleNext[state.Phase])
         ]_vars
    /\ [][state.Phase # PhaseWaiting => state'.Phase # PhaseWaiting]_vars
    /\ [][state'.Phase # state.Phase =>
            \/ state.Phase = PhaseWaiting /\ state'.Phase = PhaseNight
            \/ state.Phase \in DOMAIN CycleNext /\ state'.Phase = CycleNext[state.Phase]
            \/ state.Phase \in DOMAIN CycleNext /\ state'.Phase = PhaseEnded
         ]_vars

\* The timer has taken the game once round the cycle: the PhaseChange from
\* Voting to the Night of round 2 was the command applied last.
C33_Witness ==
    /\ state.Phase = PhaseNight
    /\ state.Round = 2
    /\ out = <<PhaseChanged(2, PhaseVoting, PhaseNight)>>
    /\ ~lastErr

\* C34: at most one phase timer is armed at any time, and it is the one the
\* manager holds; a call that makes the manager hold a new timer leaves that
\* timer as the only armed one, the timer that was armed before it stopped.
C34_OneArmedTimer ==
    /\ [](/\ Cardinality(armed) <= 1
          /\ armed \subseteq {tm.phaseTimer}
          /\ NoTimer \notin armed)
    /\ [][(tm'.phaseTimer # tm.phaseTimer /\ tm'.phaseTimer # NoTimer) =>
            /\ armed' = {tm'.phaseTimer}
            /\ armed \subseteq cancelled'
         ]_vars

\* A timer is armed after two earlier ones were stopped while armed and a
\* third fired: its callback is in its select.
C34_Witness ==
    /\ tm.phaseTimer # NoTimer
    /\ armed = {tm.phaseTimer}
    /\ Cardinality(cancelled) = 2
    /\ Len(sending) = 1

\* C35: once Engine.Stop has returned the loop has exited, no phase timer is
\* armed, and no later step changes the game state or publishes an event.
C35_StoppedIsQuiet ==
    /\ [](mainPc = "stopped" => (~running /\ armed = {}))
    /\ [][mainPc = "stopped" =>
            (state' = state /\ out' = out /\ lastErr' = lastErr /\ tm' = tm)]_vars

\* The explored rounds end with the Voting of round MaxRound: the timer of
\* that phase is not fired.
LastExploredPhase == state.Phase = PhaseVoting /\ state.Round >= MaxRound

\* C36: with a fair phase timer and a fair loop and no cancellation, every
\* Night, Day and Voting of every explored round is eventually left by an
\* applied PhaseChange: from any of them the game goes on, phase by phase,
\* until it has ended or has reached the last explored phase.
C36_PhaseEventuallyAdvances ==
    (state.Phase \in DOMAIN CycleNext) ~> (state.Phase = PhaseEnded \/ LastExploredPhase)

\* The timer has moved the game from Night to Day although the channel was
\* contended: it is full again and the inbound handler waits to send.
C36_Witness ==
    /\ state.Phase = PhaseDay
    /\ out # << >>
    /\ out[1] = PhaseChanged(1, PhaseNight, PhaseDay)
    /\ Len(cmdCh) = QueueCap
    /\ handler # << >>
    /\ mainPc = "run"

\* The PhaseChange commands waiting in the channel.
QueuedPhaseChanges == {i \in 1..Len(cmdCh) : cmdCh[i].Type = "PhaseChange"}

\* C37: in the engine runs the armed phase timers, the fired callbacks that
\* have not sent yet and the PhaseChange commands waiting in the channel
\* number at most one altogether at every moment.
C37_OnePhaseChangeInFlight ==
    Cardinality(armed) + Len(sending) + Cardinality(QueuedPhaseChanges) <= 1

\* The one PhaseChange in flight waits in the full channel behind an inbound
\* command while the handler waits to send another: no timer is armed and
\* no callback is running.
C37_Witness ==
    /\ Len(cmdCh) = QueueCap
    /\ QueuedPhaseChanges = {QueueCap}
    /\ armed = {}
    /\ sending = << >>
    /\ handler # << >>
    /\ mainPc = "run"

\* C38: every player_eliminated event a loop iteration publishes names a
\* player whom that iteration changed from alive to dead (so that, the dead
\* staying dead, no player is named by two such events in a game).
C38_EliminatedOncePerPlayer ==
    [][LoopStep =>
        \A i \in EventsOf(out', "player_eliminated") :
            /\ IsAlive(state, out'[i].PlayerID)
            /\ ~IsAlive(state', out'[i].PlayerID)
     ]_vars

\* C39: once Winner is Mafia or Village, no step changes it.
C39_WinnerIsFinal ==
    [][state.Winner # WinnerNone => state'.Winner = state.Winner]_vars

\* A night target slot of g holds a player.
NightTargetSet(g) ==
    g.MafiaTarget # NoPlayer \/ g.DoctorTarget # NoPlayer \/ g.SheriffTarget # NoPlayer

====
